---- MODULE Spec2Model ----
(***************************************************************************)
(* A model of the libcw receiver (src/src/libcw/libcw_rec.c): the receive  *)
(* state machine, the classification of marks and spaces, the adaptive     *)
(* speed tracker, the statistics ring and the parameter synchronisation.   *)
(*                                                                         *)
(* Every C function of the receiver is an operator of the same name that   *)
(* maps the receiver structure (a record) to the structure after the call, *)
(* or to a record holding that structure together with what the call       *)
(* returns (rv, errno, out parameters).  An action is one call of the      *)
(* public interface.                                                       *)
(***************************************************************************)
EXTENDS Integers, Sequences, FiniteSets, TLC

(***************************************************************************)
(* Program constants.                                                      *)
(***************************************************************************)
CW_DOT_CALIBRATION == 1200000
CW_SPEED_MIN == 4
CW_SPEED_MAX == 60
CW_SPEED_INITIAL == 12
CW_TOLERANCE_MIN == 0
CW_TOLERANCE_MAX == 90
CW_TOLERANCE_INITIAL == 50
CW_GAP_MIN == 0
CW_GAP_MAX == 60
CW_GAP_INITIAL == 0

(* libcw_gen.h: the quantum of idle waiting and the marker of the forever  *)
(* tone.                                                                   *)
CW_AUDIO_QUANTUM_USECS == 100

(* A marker that has lost its sign. *)
CW_AUDIO_FOREVER_USECS_Unsigned == CW_AUDIO_QUANTUM_USECS

CW_AUDIO_FOREVER_USECS == 0 - CW_AUDIO_QUANTUM_USECS
CW_USECS_PER_SEC == 1000000
INT_MAX == 2147483647
CW_REC_REPRESENTATION_CAPACITY == 256
CW_REC_STATISTICS_CAPACITY == 256
CW_REC_AVERAGING_ARRAY_LENGTH == 4

CW_REC_ADAPTIVE_MODE_INITIAL == FALSE
CW_REC_SPEED_THRESHOLD_INITIAL == (CW_DOT_CALIBRATION \div CW_SPEED_INITIAL) * 2
CW_REC_NOISE_THRESHOLD_INITIAL == (CW_DOT_CALIBRATION \div CW_SPEED_MAX) \div 2

CW_DOT_REPRESENTATION == "."
CW_DASH_REPRESENTATION == "-"
NUL == "NUL"

(* Receiver states. *)
RS_IDLE == "RS_IDLE"
RS_MARK == "RS_MARK"
RS_SPACE == "RS_SPACE"
RS_EOC_GAP == "RS_EOC_GAP"
RS_EOW_GAP == "RS_EOW_GAP"
RS_EOC_GAP_ERR == "RS_EOC_GAP_ERR"
RS_EOW_GAP_ERR == "RS_EOW_GAP_ERR"
ReceiverStates ==
    {RS_IDLE, RS_MARK, RS_SPACE, RS_EOC_GAP, RS_EOW_GAP, RS_EOC_GAP_ERR, RS_EOW_GAP_ERR}

(* Types of statistics records. *)
CW_REC_STAT_NONE == "NONE"
CW_REC_STAT_DOT == "DOT"
CW_REC_STAT_DASH == "DASH"
CW_REC_STAT_IMARK_SPACE == "IMARK_SPACE"
CW_REC_STAT_ICHAR_SPACE == "ICHAR_SPACE"

(* Values of errno; NoErrno stands for "not set by the call". *)
NoErrno == "none"
ERANGE == "ERANGE"
EINVAL == "EINVAL"
EAGAIN == "EAGAIN"
ENOENT == "ENOENT"
ENOMEM == "ENOMEM"
EPERM == "EPERM"

(***************************************************************************)
(* C integer arithmetic.                                                   *)
(***************************************************************************)
INT_MIN == -INT_MAX - 1

(* Whether a + b and a - b leave the range of int: undefined behaviour.   *)
AddOverflows(a, b) ==
    \/ b > 0 /\ a > INT_MAX - b
    \/ b < 0 /\ a < INT_MIN - b

SubOverflows(a, b) ==
    \/ b < 0 /\ a > INT_MAX + b
    \/ b > 0 /\ a < INT_MIN + b

(* a + b and a - b as a two's complement build computes them. *)
AddInt(a, b) ==
    IF b > 0 /\ a > INT_MAX - b THEN (a - INT_MAX) + (b - INT_MAX) - 2
    ELSE IF b < 0 /\ a < INT_MIN - b THEN (a + INT_MAX) + (b + INT_MAX) + 2
    ELSE a + b

SubInt(a, b) ==
    IF b < 0 /\ a > INT_MAX + b THEN (a - INT_MAX) - (b + INT_MAX) - 2
    ELSE IF b > 0 /\ a < INT_MIN + b THEN (a + INT_MAX) + (INT_MAX - b) + 2
    ELSE a - b

(* C's integer division truncates towards zero; b # 0. *)
CDiv(a, b) ==
    LET q == (IF a < 0 THEN -a ELSE a) \div (IF b < 0 THEN -b ELSE b)
    IN  IF (a < 0) = (b < 0) THEN q ELSE -q

(***************************************************************************)
(* Timestamps: struct timeval.                                             *)
(***************************************************************************)
Timeval(us) == [tv_sec |-> us \div CW_USECS_PER_SEC, tv_usec |-> us % CW_USECS_PER_SEC]

(* A timestamp the validation refuses. *)
BadTimeval == [tv_sec |-> 0, tv_usec |-> -1]

(* cw_timestamp_validate_internal(out, in) for a non-NULL in: whether     *)
(* the caller's timestamp is well formed; out is assigned only then.       *)
cw_timestamp_validate_internal(ts) ==
    /\ ts.tv_sec >= 0
    /\ ts.tv_usec >= 0
    /\ ts.tv_usec < CW_USECS_PER_SEC

(* cw_timestamp_compare_internal(earlier, later), for later not before    *)
(* earlier: the difference in microseconds, clamped to INT_MAX.            *)
cw_timestamp_compare_internal(earlier, later) ==
    LET delta_sec  == later.tv_sec - earlier.tv_sec
        delta_usec == later.tv_usec - earlier.tv_usec
        max_sec    == INT_MAX \div CW_USECS_PER_SEC
        max_usec   == INT_MAX % CW_USECS_PER_SEC
    IN  IF delta_sec > max_sec + 1
           \/ (delta_sec = max_sec + 1 /\ delta_usec >= max_usec - CW_USECS_PER_SEC)
           \/ (delta_sec = max_sec /\ delta_usec >= max_usec)
        THEN INT_MAX
        ELSE delta_sec * CW_USECS_PER_SEC + delta_usec

(***************************************************************************)
(* The receiver structure, as initialised at libcw_rec.c:292.              *)
(***************************************************************************)
AveragingInitial ==
    [buffer |-> [i \in 0 .. CW_REC_AVERAGING_ARRAY_LENGTH - 1 |-> 0],
     cursor |-> 0, sum |-> 0, average |-> 0]

StatisticsInitial ==
    [i \in 0 .. CW_REC_STATISTICS_CAPACITY - 1 |-> [type |-> CW_REC_STAT_NONE, delta |-> 0]]

cw_receiver ==
    [state |-> RS_IDLE,
     gap |-> CW_GAP_INITIAL,
     speed |-> CW_SPEED_INITIAL,
     tolerance |-> CW_TOLERANCE_INITIAL,
     is_adaptive_receive_mode |-> CW_REC_ADAPTIVE_MODE_INITIAL,
     noise_spike_threshold |-> CW_REC_NOISE_THRESHOLD_INITIAL,
     adaptive_speed_threshold |-> CW_REC_SPEED_THRESHOLD_INITIAL,
     mark_start |-> Timeval(0),
     mark_end |-> Timeval(0),
     representation |-> [i \in 0 .. CW_REC_REPRESENTATION_CAPACITY |-> NUL],
     representation_ind |-> 0,
     dot_len_ideal |-> 0, dot_len_min |-> 0, dot_len_max |-> 0,
     dash_len_ideal |-> 0, dash_len_min |-> 0, dash_len_max |-> 0,
     eom_len_ideal |-> 0, eom_len_min |-> 0, eom_len_max |-> 0,
     eoc_len_ideal |-> 0, eoc_len_min |-> 0, eoc_len_max |-> 0,
     additional_delay |-> 0,
     adjustment_delay |-> 0,
     parameters_in_sync |-> FALSE,
     statistics_ind |-> 0,
     statistics |-> StatisticsInitial,
     dot_averaging |-> AveragingInitial,
     dash_averaging |-> AveragingInitial,
     \* Not fields of the structure.  sigfpe: the process was killed by
     \* SIGFPE (an integer division by zero in the parameter
     \* synchronisation).  overflow: a signed addition or subtraction has
     \* left the range of int (in a moving average).  Both are undefined
     \* behaviour: what the receiver holds from then on is not defined.
     sigfpe |-> FALSE,
     overflow |-> FALSE]

(***************************************************************************)
(* What a function returns: [rec, rv, errno] and the out parameters of a   *)
(* poll, which are left as the caller passed them unless the poll succeeds.*)
(***************************************************************************)
NoRepresentation == << >>

Failure(r, e) ==
    [rec |-> r, rv |-> FALSE, errno |-> e, representation |-> NoRepresentation,
     c |-> NUL, is_end_of_word |-> FALSE, is_error |-> FALSE]

Success(r) ==
    [rec |-> r, rv |-> TRUE, errno |-> NoErrno, representation |-> NoRepresentation,
     c |-> NUL, is_end_of_word |-> FALSE, is_error |-> FALSE]

(* The result of cw_rec_identify_mark_internal as such a record. *)
Identified(id) ==
    [rec |-> id.rec, rv |-> id.rv, errno |-> id.errno,
     representation |-> IF id.rv THEN <<id.mark>> ELSE NoRepresentation,
     c |-> NUL, is_end_of_word |-> FALSE, is_error |-> FALSE]

(***************************************************************************)
(* cw_rec_sync_parameters_internal                                         *)
(***************************************************************************)
SyncDividesByZero(r) ==
    \/ r.speed = 0
    \/ r.is_adaptive_receive_mode /\ CDiv(r.adaptive_speed_threshold, 2) = 0

(* Adaptive ranges with a gap between the longest dot and the shortest    *)
(* dash.                                                                   *)
SyncAdaptiveRanges_Gap(r) ==
    [r EXCEPT !.dot_len_min = 0,
              !.dot_len_max = 2 * r.dot_len_ideal,
              !.dash_len_min = 2 * r.dot_len_ideal + 2,
              !.dash_len_max = INT_MAX,
              !.eom_len_min = 0,
              !.eom_len_max = 2 * r.dot_len_ideal,
              !.eoc_len_min = 2 * r.dot_len_ideal,
              !.eoc_len_max = 5 * r.dot_len_ideal]

SyncAdaptiveRanges(r) ==
    LET dot_len_max == 2 * r.dot_len_ideal
    IN  [r EXCEPT !.dot_len_min = 0,
                  !.dot_len_max = dot_len_max,
                  !.dash_len_min = dot_len_max,
                  !.dash_len_max = INT_MAX,
                  !.eom_len_min = 0,
                  !.eom_len_max = dot_len_max,
                  !.eoc_len_min = dot_len_max,
                  !.eoc_len_max = 5 * r.dot_len_ideal]

SyncFixedRanges(r) ==
    LET tolerance == CDiv(r.dot_len_ideal * r.tolerance, 100)
    IN  [r EXCEPT !.dot_len_min = r.dot_len_ideal - tolerance,
                  !.dot_len_max = r.dot_len_ideal + tolerance,
                  !.dash_len_min = r.dash_len_ideal - tolerance,
                  !.dash_len_max = r.dash_len_ideal + tolerance,
                  !.eom_len_min = r.dot_len_ideal - tolerance,
                  !.eom_len_max = r.dot_len_ideal + tolerance,
                  !.eoc_len_min = r.dash_len_ideal - tolerance,
                  !.eoc_len_max = r.dash_len_ideal + tolerance
                                  + r.additional_delay + r.adjustment_delay]

(* The dot length of the speed held when the synchronisation starts. *)
SyncUnitLen(r) == CDiv(CW_DOT_CALIBRATION, r.speed)

(* Speed from threshold (adaptive) or threshold from speed (fixed). *)
SyncSpeedAndThreshold(r, unit_len) ==
    IF r.is_adaptive_receive_mode
    THEN [r EXCEPT !.speed =
             CDiv(CW_DOT_CALIBRATION, CDiv(r.adaptive_speed_threshold, 2))]
    ELSE [r EXCEPT !.adaptive_speed_threshold = 2 * unit_len]

SyncIdealLengths(r, unit_len) ==
    [r EXCEPT !.dot_len_ideal = unit_len,
              !.dash_len_ideal = 3 * unit_len,
              !.eom_len_ideal = unit_len,
              !.eoc_len_ideal = 3 * unit_len,
              !.additional_delay = r.gap * unit_len,
              !.adjustment_delay = CDiv(7 * (r.gap * unit_len), 3)]

SyncRanges(r) ==
    IF r.is_adaptive_receive_mode THEN SyncAdaptiveRanges(r) ELSE SyncFixedRanges(r)

SyncDone(r) == [r EXCEPT !.parameters_in_sync = TRUE]

cw_rec_sync_parameters_internal(r) ==
    IF r.parameters_in_sync THEN r
    ELSE IF SyncDividesByZero(r) THEN [r EXCEPT !.sigfpe = TRUE]
    ELSE SyncDone(SyncRanges(SyncIdealLengths(
             SyncSpeedAndThreshold(r, SyncUnitLen(r)), SyncUnitLen(r))))

(***************************************************************************)
(* Moving averages of mark lengths (adaptive receiving mode).              *)
(***************************************************************************)
cw_rec_reset_average_internal(avg, initial) ==
    [avg EXCEPT !.buffer = [i \in 0 .. CW_REC_AVERAGING_ARRAY_LENGTH - 1 |-> initial],
                !.sum = initial * CW_REC_AVERAGING_ARRAY_LENGTH,
                !.cursor = 0]

AverageOverflows(avg, mark_len) ==
    \/ SubOverflows(avg.sum, avg.buffer[avg.cursor])
    \/ AddOverflows(SubInt(avg.sum, avg.buffer[avg.cursor]), mark_len)

cw_rec_update_average_internal(avg, mark_len) ==
    LET sum == AddInt(SubInt(avg.sum, avg.buffer[avg.cursor]), mark_len)
    IN  [avg EXCEPT !.sum = sum,
                    !.average = CDiv(sum, CW_REC_AVERAGING_ARRAY_LENGTH),
                    !.buffer[avg.cursor] = mark_len,
                    !.cursor = (avg.cursor + 1) % CW_REC_AVERAGING_ARRAY_LENGTH]

(***************************************************************************)
(* Statistics ring.                                                        *)
(***************************************************************************)
StatIdeal(r, type, len) ==
    CASE type = CW_REC_STAT_DOT -> r.dot_len_ideal
      [] type = CW_REC_STAT_DASH -> r.dash_len_ideal
      [] type = CW_REC_STAT_IMARK_SPACE -> r.eom_len_ideal
      [] type = CW_REC_STAT_ICHAR_SPACE -> r.eoc_len_ideal
      [] OTHER -> len

(* An entry stored without the wrap of the index. *)
StoreStatistic_NoWrap(r, type, len) ==
    [r EXCEPT !.statistics[r.statistics_ind] =
                  [type |-> type, delta |-> len - StatIdeal(r, type, len)],
              !.statistics_ind = r.statistics_ind + 1]

(* The entry is stored, the parameters being in sync. *)
StoreStatistic(r, type, len) ==
    [r EXCEPT !.statistics[r.statistics_ind] =
                  [type |-> type, delta |-> len - StatIdeal(r, type, len)],
              !.statistics_ind = (r.statistics_ind + 1) % CW_REC_STATISTICS_CAPACITY]

cw_rec_update_stats_internal(r, type, len) ==
    StoreStatistic(cw_rec_sync_parameters_internal(r), type, len)

cw_reset_receive_statistics(r) ==
    [r EXCEPT !.statistics = StatisticsInitial, !.statistics_ind = 0]

(***************************************************************************)
(* cw_rec_identify_mark_internal: [rec, rv, errno, mark].                  *)
(***************************************************************************)
(* A dot range that is open at its upper end. *)
IsDotLen_Open(r, mark_len) == mark_len >= r.dot_len_min /\ mark_len < r.dot_len_max

IsDotLen(r, mark_len) == mark_len >= r.dot_len_min /\ mark_len <= r.dot_len_max

IsDashLen(r, mark_len) == mark_len >= r.dash_len_min /\ mark_len <= r.dash_len_max

(* An identification that takes every unrecognised mark for the end of a *)
(* character.                                                              *)
IdentifyInSync_AlwaysEoc(r, mark_len) ==
    IF IsDotLen(r, mark_len)
    THEN [rec |-> r, rv |-> TRUE, errno |-> NoErrno, mark |-> CW_DOT_REPRESENTATION]
    ELSE IF IsDashLen(r, mark_len)
    THEN [rec |-> r, rv |-> TRUE, errno |-> NoErrno, mark |-> CW_DASH_REPRESENTATION]
    ELSE [rec |-> [r EXCEPT !.state = RS_EOC_GAP_ERR],
          rv |-> FALSE, errno |-> ENOENT, mark |-> NUL]

(* The comparison with the ranges, the parameters being in sync. *)
IdentifyInSync(r, mark_len) ==
    IF IsDotLen(r, mark_len)
    THEN [rec |-> r, rv |-> TRUE, errno |-> NoErrno, mark |-> CW_DOT_REPRESENTATION]
    ELSE IF IsDashLen(r, mark_len)
    THEN [rec |-> r, rv |-> TRUE, errno |-> NoErrno, mark |-> CW_DASH_REPRESENTATION]
    ELSE [rec |-> [r EXCEPT !.state = IF mark_len > r.eoc_len_max
                                       THEN RS_EOW_GAP_ERR ELSE RS_EOC_GAP_ERR],
          rv |-> FALSE, errno |-> ENOENT, mark |-> NUL]

cw_rec_identify_mark_internal(r, mark_len) ==
    IdentifyInSync(cw_rec_sync_parameters_internal(r), mark_len)

(***************************************************************************)
(* cw_rec_update_averages_internal                                         *)
(***************************************************************************)
(* A threshold that is the average dash instead of the midpoint. *)
AdaptiveThreshold_Dash(avg_dot_len, avg_dash_len) == avg_dash_len

AdaptiveThreshold(avg_dot_len, avg_dash_len) ==
    CDiv(avg_dash_len - avg_dot_len, 2) + avg_dot_len

(* The speed is clamped: a resync as for fixed speed, to get the          *)
(* threshold of the clamped speed, and one more as for adaptive speed.     *)
(* A clamp of the speed alone, without the two synchronisations. *)
ClampSpeed_NoResync(r) ==
    [r EXCEPT !.speed = IF r.speed < CW_SPEED_MIN THEN CW_SPEED_MIN ELSE CW_SPEED_MAX]

ClampSpeed(r) ==
    cw_rec_sync_parameters_internal(
        [cw_rec_sync_parameters_internal(
             [r EXCEPT !.speed = IF r.speed < CW_SPEED_MIN
                                 THEN CW_SPEED_MIN ELSE CW_SPEED_MAX,
                       !.is_adaptive_receive_mode = FALSE,
                       !.parameters_in_sync = FALSE])
         EXCEPT !.is_adaptive_receive_mode = TRUE,
                !.parameters_in_sync = FALSE])

(* The moving average of the mark's kind takes the new length. *)
UpdateAverageOfMark(r, mark_len, mark) ==
    IF mark = CW_DOT_REPRESENTATION
    THEN [r EXCEPT !.dot_averaging =
                       cw_rec_update_average_internal(r.dot_averaging, mark_len),
                   !.overflow =
                       r.overflow \/ AverageOverflows(r.dot_averaging, mark_len)]
    ELSE [r EXCEPT !.dash_averaging =
                       cw_rec_update_average_internal(r.dash_averaging, mark_len),
                   !.overflow =
                       r.overflow \/ AverageOverflows(r.dash_averaging, mark_len)]

UpdateThreshold(r) ==
    [r EXCEPT !.adaptive_speed_threshold =
                  AdaptiveThreshold(r.dot_averaging.average, r.dash_averaging.average),
              !.parameters_in_sync = FALSE]

ClampSpeedIfOutOfRange(r) ==
    IF r.sigfpe THEN r
    ELSE IF r.speed < CW_SPEED_MIN \/ r.speed > CW_SPEED_MAX THEN ClampSpeed(r)
    ELSE r

cw_rec_update_averages_internal(r, mark_len, mark) ==
    IF ~r.is_adaptive_receive_mode THEN r
    ELSE IF mark \notin {CW_DOT_REPRESENTATION, CW_DASH_REPRESENTATION} THEN r
    ELSE ClampSpeedIfOutOfRange(cw_rec_sync_parameters_internal(
             UpdateThreshold(UpdateAverageOfMark(r, mark_len, mark))))

(***************************************************************************)
(* cw_rec_set_adaptive_internal and the setters of the essential           *)
(* parameters: [rec, rv, errno] where the C function returns a status.     *)
(***************************************************************************)
(* On a change to adaptive mode the averages start from the ideal lengths. *)
ResetAveragesIfAdaptive(r) ==
    IF r.is_adaptive_receive_mode
    THEN [r EXCEPT !.dot_averaging =
                       cw_rec_reset_average_internal(r.dot_averaging, r.dot_len_ideal),
                   !.dash_averaging =
                       cw_rec_reset_average_internal(r.dash_averaging, r.dash_len_ideal)]
    ELSE r

cw_rec_set_adaptive_internal(r, adaptive) ==
    IF r.is_adaptive_receive_mode = adaptive THEN r
    ELSE ResetAveragesIfAdaptive(cw_rec_sync_parameters_internal(
             [r EXCEPT !.is_adaptive_receive_mode = adaptive,
                       !.parameters_in_sync = FALSE]))

(* A setter that does not check the range of new_value. *)
cw_set_receive_speed_Unchecked(r, new_value) ==
    IF r.is_adaptive_receive_mode
    THEN Failure(r, EPERM)
    ELSE IF new_value # r.speed
    THEN Success(cw_rec_sync_parameters_internal(
                      [r EXCEPT !.speed = new_value, !.parameters_in_sync = FALSE]))
    ELSE Success(r)

cw_set_receive_speed(r, new_value) ==
    IF r.is_adaptive_receive_mode
    THEN Failure(r, EPERM)
    ELSE IF new_value < CW_SPEED_MIN \/ new_value > CW_SPEED_MAX
    THEN Failure(r, EINVAL)
    ELSE IF new_value # r.speed
    THEN Success(cw_rec_sync_parameters_internal(
                      [r EXCEPT !.speed = new_value, !.parameters_in_sync = FALSE]))
    ELSE Success(r)

(* A setter that leaves the derived timings as they are. *)
cw_set_tolerance_NoResync(r, new_value) ==
    IF new_value < CW_TOLERANCE_MIN \/ new_value > CW_TOLERANCE_MAX
    THEN Failure(r, EINVAL)
    ELSE Success([r EXCEPT !.tolerance = new_value])

cw_set_tolerance(r, new_value) ==
    IF new_value < CW_TOLERANCE_MIN \/ new_value > CW_TOLERANCE_MAX
    THEN Failure(r, EINVAL)
    ELSE IF new_value # r.tolerance
    THEN Success(cw_rec_sync_parameters_internal(
                      [r EXCEPT !.tolerance = new_value, !.parameters_in_sync = FALSE]))
    ELSE Success(r)

cw_rec_set_gap_internal(r, new_value) ==
    IF new_value < CW_GAP_MIN \/ new_value > CW_GAP_MAX
    THEN Failure(r, EINVAL)
    ELSE IF new_value # r.gap
    THEN Success(cw_rec_sync_parameters_internal(
                      [r EXCEPT !.gap = new_value, !.parameters_in_sync = FALSE]))
    ELSE Success(r)

cw_set_noise_spike_threshold(r, new_value) ==
    IF new_value < 0
    THEN Failure(r, EINVAL)
    ELSE Success([r EXCEPT !.noise_spike_threshold = new_value])

cw_rec_reset_receive_parameters_internal(r) ==
    [r EXCEPT !.speed = CW_SPEED_INITIAL,
              !.tolerance = CW_TOLERANCE_INITIAL,
              !.is_adaptive_receive_mode = CW_REC_ADAPTIVE_MODE_INITIAL,
              !.noise_spike_threshold = CW_REC_NOISE_THRESHOLD_INITIAL,
              !.parameters_in_sync = FALSE]

(***************************************************************************)
(* Marks: cw_rec_mark_begin_internal, cw_rec_mark_end_internal and         *)
(* cw_rec_add_mark_internal: [rec, rv, errno].                             *)
(***************************************************************************)
(* A cw_rec_mark_begin_internal() that does not look at the state. *)
cw_rec_mark_begin_internal_AnyState(r, timestamp) ==
    IF ~cw_timestamp_validate_internal(timestamp) THEN Failure(r, EINVAL)
    ELSE Success([r EXCEPT !.mark_start = timestamp, !.state = RS_MARK])

(* The mark has begun at r.mark_start. *)
MarkBegun(r) ==
    IF r.state = RS_SPACE
    THEN [cw_rec_update_stats_internal(r, CW_REC_STAT_IMARK_SPACE,
              cw_timestamp_compare_internal(r.mark_end, r.mark_start))
          EXCEPT !.state = RS_MARK]
    ELSE [r EXCEPT !.state = RS_MARK]

cw_rec_mark_begin_internal(r, timestamp) ==
    IF r.state # RS_IDLE /\ r.state # RS_SPACE THEN Failure(r, ERANGE)
    ELSE IF ~cw_timestamp_validate_internal(timestamp) THEN Failure(r, EINVAL)
    ELSE Success(MarkBegun([r EXCEPT !.mark_start = timestamp]))

IsNoiseSpike(r, mark_len) ==
    r.noise_spike_threshold > 0 /\ mark_len <= r.noise_spike_threshold

(* A rollback that forgets the marks already in the buffer. *)
NoiseRollbackState_Idle(r) == RS_IDLE

(* The state restored when a mark turns out to be noise. *)
NoiseRollbackState(r) == IF r.representation_ind = 0 THEN RS_IDLE ELSE RS_SPACE

(* Whether the buffer counts as full once a mark has been added. *)
RepresentationIsFull(r) == r.representation_ind = CW_REC_REPRESENTATION_CAPACITY - 1

(* The mark is put into the buffer; the state that follows. *)
BufferMark(r, mark) ==
    LET a == [r EXCEPT !.representation[r.representation_ind] = mark,
                       !.representation_ind = r.representation_ind + 1]
    IN  IF RepresentationIsFull(a)
        THEN Failure([a EXCEPT !.state = RS_EOC_GAP_ERR], ENOMEM)
        ELSE Success([a EXCEPT !.state = RS_SPACE])

(* The mark has been identified: averages, statistics, buffer. *)
MarkEndAverages(r, mark_len, mark) ==
    IF r.is_adaptive_receive_mode
    THEN cw_rec_update_averages_internal(r, mark_len, mark)
    ELSE r

MarkEndStatistics(r, mark_len, mark) ==
    IF mark = CW_DOT_REPRESENTATION
    THEN cw_rec_update_stats_internal(r, CW_REC_STAT_DOT, mark_len)
    ELSE cw_rec_update_stats_internal(r, CW_REC_STAT_DASH, mark_len)

MarkIdentified(id, mark_len) ==
    IF ~id.rv THEN Failure(id.rec, id.errno)
    ELSE BufferMark(MarkEndStatistics(MarkEndAverages(id.rec, mark_len, id.mark),
                                      mark_len, id.mark),
                    id.mark)

(* The mark has ended at r.mark_end and is mark_len long. *)
MarkEnded(r, saved_end_timestamp, mark_len) ==
    IF IsNoiseSpike(r, mark_len)
    THEN Failure([r EXCEPT !.state = NoiseRollbackState(r),
                           !.mark_end = saved_end_timestamp], EAGAIN)
    ELSE MarkIdentified(cw_rec_identify_mark_internal(r, mark_len), mark_len)

cw_rec_mark_end_internal(r, timestamp) ==
    IF r.state # RS_MARK THEN Failure(r, ERANGE)
    ELSE IF ~cw_timestamp_validate_internal(timestamp) THEN Failure(r, EINVAL)
    ELSE MarkEnded([r EXCEPT !.mark_end = timestamp], r.mark_end,
                   cw_timestamp_compare_internal(r.mark_start, timestamp))

(* A mark added in whatever state the receiver is in. *)
cw_rec_add_mark_internal_AnyState(r, timestamp, mark) ==
    IF ~cw_timestamp_validate_internal(timestamp) THEN Failure(r, EINVAL)
    ELSE BufferMark([r EXCEPT !.mark_end = timestamp], mark)

cw_rec_add_mark_internal(r, timestamp, mark) ==
    IF r.state # RS_IDLE /\ r.state # RS_SPACE THEN Failure(r, ERANGE)
    ELSE IF ~cw_timestamp_validate_internal(timestamp) THEN Failure(r, EINVAL)
    ELSE BufferMark([r EXCEPT !.mark_end = timestamp], mark)

(***************************************************************************)
(* Polling: [rec, rv, errno, representation, is_end_of_word, is_error].    *)
(* The out parameters are left as the caller passed them on failure.       *)
(***************************************************************************)
(* strncat(dest, src, n) into an empty dest: the characters of src up to  *)
(* the first NUL, n at most.                                               *)
Strncat(src, n) ==
    LET nuls == {i \in 0 .. n - 1 : src[i] = NUL}
        len  == IF nuls = {} THEN n
                ELSE CHOOSE i \in nuls : \A j \in nuls : i <= j
    IN  [i \in 1 .. len |-> src[i - 1]]

PollFailure(r, e) == Failure(r, e)

PollReturn(r, is_end_of_word, error_state) ==
    [rec |-> [r EXCEPT !.representation[r.representation_ind] = NUL],
     rv |-> TRUE, errno |-> NoErrno,
     representation |-> Strncat(r.representation, r.representation_ind),
     c |-> NUL,
     is_end_of_word |-> is_end_of_word,
     is_error |-> (r.state = error_state)]

(* An end-of-character poll that measures the space at every poll. *)
cw_rec_poll_representation_eoc_internal_EveryPoll(r, space_len) ==
    IF r.state = RS_SPACE \/ r.state = RS_EOC_GAP
    THEN PollReturn([cw_rec_update_stats_internal(r, CW_REC_STAT_ICHAR_SPACE, space_len)
                        EXCEPT !.state = RS_EOC_GAP],
                    FALSE, RS_EOC_GAP_ERR)
    ELSE PollReturn(r, FALSE, RS_EOC_GAP_ERR)

cw_rec_poll_representation_eoc_internal(r, space_len) ==
    IF r.state = RS_SPACE
    THEN PollReturn([cw_rec_update_stats_internal(r, CW_REC_STAT_ICHAR_SPACE, space_len)
                        EXCEPT !.state = RS_EOC_GAP],
                    FALSE, RS_EOC_GAP_ERR)
    ELSE PollReturn(r, FALSE, RS_EOC_GAP_ERR)

(* An end-of-word poll that forgets the error. *)
cw_rec_poll_representation_eow_internal_Forgets(r) ==
    PollReturn([r EXCEPT !.state = RS_EOW_GAP], TRUE, RS_EOW_GAP_ERR)

(* An end-of-word poll that leaves the state as it is. *)
cw_rec_poll_representation_eow_internal_NoTransition(r) ==
    PollReturn(r, TRUE, RS_EOW_GAP_ERR)

cw_rec_poll_representation_eow_internal(r) ==
    IF r.state = RS_EOC_GAP \/ r.state = RS_SPACE
    THEN PollReturn([r EXCEPT !.state = RS_EOW_GAP], TRUE, RS_EOW_GAP_ERR)
    ELSE IF r.state = RS_EOC_GAP_ERR
    THEN PollReturn([r EXCEPT !.state = RS_EOW_GAP_ERR], TRUE, RS_EOW_GAP_ERR)
    ELSE PollReturn(r, TRUE, RS_EOW_GAP_ERR)

(* The space is space_len long, the parameters being in sync. *)
PollSpace(r, space_len) ==
    IF space_len >= r.eoc_len_min /\ space_len <= r.eoc_len_max
    THEN cw_rec_poll_representation_eoc_internal(r, space_len)
    ELSE IF space_len > r.eoc_len_max
    THEN cw_rec_poll_representation_eow_internal(r)
    ELSE PollFailure(r, EAGAIN)

PollTimed(r, space_len) ==
    IF space_len = INT_MAX THEN PollFailure(r, EAGAIN)
    ELSE PollSpace(cw_rec_sync_parameters_internal(r), space_len)

(* A poll that tells a poll in Mark to try again later. *)
cw_rec_poll_representation_internal_MarkAgain(r, timestamp) ==
    IF r.state = RS_EOW_GAP \/ r.state = RS_EOW_GAP_ERR
    THEN cw_rec_poll_representation_eow_internal(r)
    ELSE IF r.state = RS_IDLE
    THEN PollFailure(r, ERANGE)
    ELSE IF r.state = RS_MARK
    THEN PollFailure(r, EAGAIN)
    ELSE IF ~cw_timestamp_validate_internal(timestamp)
    THEN PollFailure(r, EINVAL)
    ELSE PollTimed(r, cw_timestamp_compare_internal(r.mark_end, timestamp))

cw_rec_poll_representation_internal(r, timestamp) ==
    IF r.state = RS_EOW_GAP \/ r.state = RS_EOW_GAP_ERR
    THEN cw_rec_poll_representation_eow_internal(r)
    ELSE IF r.state = RS_IDLE \/ r.state = RS_MARK
    THEN PollFailure(r, ERANGE)
    ELSE IF ~cw_timestamp_validate_internal(timestamp)
    THEN PollFailure(r, EINVAL)
    ELSE PollTimed(r, cw_timestamp_compare_internal(r.mark_end, timestamp))

(***************************************************************************)
(* The code table and cw_rec_poll_character_internal                       *)
(***************************************************************************)
(* The letters and the digits of the table of characters and their        *)
(* representations.                                                        *)
CW_TABLE ==
    {
     <<"A", <<".", "-">>>>,
     <<"B", <<"-", ".", ".", ".">>>>,
     <<"C", <<"-", ".", "-", ".">>>>,
     <<"D", <<"-", ".", ".">>>>,
     <<"E", <<".">>>>,
     <<"F", <<".", ".", "-", ".">>>>,
     <<"G", <<"-", "-", ".">>>>,
     <<"H", <<".", ".", ".", ".">>>>,
     <<"I", <<".", ".">>>>,
     <<"J", <<".", "-", "-", "-">>>>,
     <<"K", <<"-", ".", "-">>>>,
     <<"L", <<".", "-", ".", ".">>>>,
     <<"M", <<"-", "-">>>>,
     <<"N", <<"-", ".">>>>,
     <<"O", <<"-", "-", "-">>>>,
     <<"P", <<".", "-", "-", ".">>>>,
     <<"Q", <<"-", "-", ".", "-">>>>,
     <<"R", <<".", "-", ".">>>>,
     <<"S", <<".", ".", ".">>>>,
     <<"T", <<"-">>>>,
     <<"U", <<".", ".", "-">>>>,
     <<"V", <<".", ".", ".", "-">>>>,
     <<"W", <<".", "-", "-">>>>,
     <<"X", <<"-", ".", ".", "-">>>>,
     <<"Y", <<"-", ".", "-", "-">>>>,
     <<"Z", <<"-", "-", ".", ".">>>>,
     <<"0", <<"-", "-", "-", "-", "-">>>>,
     <<"1", <<".", "-", "-", "-", "-">>>>,
     <<"2", <<".", ".", "-", "-", "-">>>>,
     <<"3", <<".", ".", ".", "-", "-">>>>,
     <<"4", <<".", ".", ".", ".", "-">>>>,
     <<"5", <<".", ".", ".", ".", ".">>>>,
     <<"6", <<"-", ".", ".", ".", ".">>>>,
     <<"7", <<"-", "-", ".", ".", ".">>>>,
     <<"8", <<"-", "-", "-", ".", ".">>>>,
     <<"9", <<"-", "-", "-", "-", ".">>>>
    }

(* The character of a representation, NUL if the table has none. *)
cw_representation_to_character_internal(representation) ==
    IF \E entry \in CW_TABLE : entry[2] = representation
    THEN (CHOOSE entry \in CW_TABLE : entry[2] = representation)[1]
    ELSE NUL

(* The representation of a character of the table. *)
cw_character_to_representation_internal(character) ==
    (CHOOSE entry \in CW_TABLE : entry[1] = character)[2]

(* A lookup that finds no character. *)
PollCharacterLookedUp_Unknown(status, character) == Failure(status.rec, ENOENT)

PollCharacterLookedUp(status, character) ==
    IF character = NUL
    THEN Failure(status.rec, ENOENT)
    ELSE [status EXCEPT !.c = character]

PollCharacterPolled(status) ==
    IF ~status.rv
    THEN status
    ELSE PollCharacterLookedUp(
             status, cw_representation_to_character_internal(status.representation))

cw_rec_poll_character_internal(r, timestamp) ==
    PollCharacterPolled(cw_rec_poll_representation_internal(r, timestamp))

(***************************************************************************)
(* cw_clear_receive_buffer and cw_reset_receive                            *)
(***************************************************************************)
(* A clear that empties the buffer and leaves the state as it is. *)
cw_clear_receive_buffer_KeepState(r) ==
    [r EXCEPT !.representation_ind = 0]

(* A clear that sets the state and leaves the marks in the buffer. *)
cw_clear_receive_buffer_KeepMarks(r) ==
    [r EXCEPT !.state = RS_IDLE]

cw_clear_receive_buffer(r) ==
    [r EXCEPT !.representation_ind = 0, !.state = RS_IDLE]

cw_reset_receive(r) ==
    cw_reset_receive_statistics([r EXCEPT !.representation_ind = 0, !.state = RS_IDLE])

(***************************************************************************)
(* State.                                                                  *)
(*   rec   the receiver structure (cw_receiver)                            *)
(*   now   the client's clock: the latest well-formed timestamp the        *)
(*         client has passed to the receiver                               *)
(*   last  the latest call of the interface and what it returned           *)
(*   pre   what the receiver held when the latest accepted                 *)
(*         cw_start_receive_tone() was called (history)                    *)
(*   heard what the successful calls of cw_receive_character() returned,   *)
(*         in their order (history)                                        *)
(*   text  the characters that the client keys                             *)
(*   nops  the number of calls so far that changed the receiver or moved   *)
(*         the clock                                                       *)
(*   limit the number of such calls the client makes                       *)
(*   xcwcp the Receiver object of xcwcp that drives the receiver, and      *)
(*         where its polling task stands                                   *)
(*   tq    the tone queue of the generator, and the tones dequeued from    *)
(*         it, in their order (history)                                    *)
(*   keyer the iambic keyer, and the elements it has enqueued, in their    *)
(*         order (history)                                                 *)
(*   sender the Sender object of xcwcp, the characters it has passed to    *)
(*         cw_send_character(), in their order (history), and the          *)
(*         characters enqueued and not removed, in their order (history)   *)
(***************************************************************************)
VARIABLES rec, now, last, pre, fed, heard, text, nops, limit, xcwcp, tq, keyer, sender

vars == <<rec, now, last, pre, fed, heard, text, nops, limit, xcwcp, tq, keyer, sender>>

(* Bounds of the model. *)
MaxOps == 5

(* The time usecs microseconds after ts. *)
Later(ts, usecs) ==
    LET usec == ts.tv_usec + (usecs % CW_USECS_PER_SEC)
    IN  [tv_sec  |-> ts.tv_sec + (usecs \div CW_USECS_PER_SEC) + (usec \div CW_USECS_PER_SEC),
         tv_usec |-> usec % CW_USECS_PER_SEC]

(* What a call returned: ts is the timestamp passed (the current time for *)
(* a call that takes none), arg its integer argument (0 if it has none),   *)
(* from the state of the receiver when the call was made.                  *)
Returned(op, ts, arg, res) ==
    [op |-> op, ts |-> ts, arg |-> arg, from |-> rec.state,
     rv |-> res.rv, errno |-> res.errno,
     representation |-> res.representation, c |-> res.c,
     is_end_of_word |-> res.is_end_of_word, is_error |-> res.is_error]

Snapshot(r) ==
    [state |-> r.state, representation_ind |-> r.representation_ind, mark_end |-> r.mark_end,
     statistics |-> r.statistics, statistics_ind |-> r.statistics_ind]

(* The Receiver object after Receiver::clear(); the polling task is        *)
(* between two polls ("poll"), has received a character whose flag it has  *)
(* not set yet ("received"), or is between poll_space() and                *)
(* poll_character() ("character"); aborted after abort().                  *)
ReceiverInitial ==
    [is_pending_inter_word_space |-> FALSE, libcw_receive_errno |-> NoErrno,
     tracked_key_state |-> FALSE, pc |-> "poll", aborted |-> FALSE]

(* The empty tone queue; enqueued, removed and dequeued are the tones that  *)
(* were enqueued, removed from the queue and returned by dequeue, in their *)
(* order (history); head and tail are the indices of the ring at which the *)
(* next tone is removed and stored.  The low-water callback is registered  *)
(* with low_water_mark; invocations counts its calls and crossings the     *)
(* times the length went from above the mark to the mark or below          *)
(* (history).                                                              *)
ToneQueueInitial ==
    [queue |-> << >>, head |-> 0, tail |-> 0,
     low_water_mark |-> 0, armed |-> FALSE, invocations |-> 0, crossings |-> 0,
     blocked |-> FALSE, level |-> 0, signalled |-> FALSE, shutdown |-> FALSE,
     enqueued |-> << >>, removed |-> << >>, dequeued |-> << >>]

(* The keyer with both paddles up.  elements are the elements enqueued,    *)
(* dot_pressed and dash_pressed tell that the paddle was pressed while the *)
(* element in progress was played, and up_boundaries counts the element    *)
(* boundaries since both paddles were last up (history).                   *)
KeyerInitial ==
    [state |-> "Idle", dot_paddle |-> FALSE, dash_paddle |-> FALSE,
     dot_latch |-> FALSE, dash_latch |-> FALSE,
     dot_pressed |-> FALSE, dash_pressed |-> FALSE,
     elements |-> << >>, up_boundaries |-> 0]

(* The Sender object with an empty send_queue_; sent and kept are the     *)
(* histories, aborted is set by abort().                                   *)
SenderInitial ==
    [send_queue_ |-> << >>, is_queue_idle_ |-> TRUE,
     sent |-> << >>, kept |-> << >>, aborted |-> FALSE]

(* The client starts with the receiver r and the Sender object s, makes n *)
(* calls and keys t.                                                       *)
Constructed(r, n, t, s) ==
    /\ sender = s
    /\ rec = r
    /\ now = Timeval(0)
    /\ last = [op |-> "none", ts |-> Timeval(0), arg |-> 0, from |-> r.state,
               rv |-> TRUE, errno |-> NoErrno,
               representation |-> NoRepresentation, c |-> NUL,
               is_end_of_word |-> FALSE, is_error |-> FALSE]
    /\ pre = Snapshot(r)
    /\ fed = << >>
    /\ heard = << >>
    /\ text = t
    /\ nops = 0
    /\ limit = n
    /\ xcwcp = ReceiverInitial
    /\ tq = ToneQueueInitial
    /\ keyer = KeyerInitial

(* The client starts with the receiver r, makes n calls and keys t. *)
StartedWith(r, n, t) == Constructed(r, n, t, SenderInitial)

Started(r, n) == StartedWith(r, n, << >>)

Init == Started(cw_receiver, MaxOps)

(* The process runs, its state is defined and the client goes on. *)
Alive == ~rec.sigfpe /\ ~rec.overflow /\ nops < limit

(* A call has returned res. *)
Returning(op, ts, arg, res) ==
    /\ Alive
    /\ rec' = res.rec
    /\ last' = Returned(op, ts, arg, res)
    /\ now' = IF cw_timestamp_validate_internal(ts) THEN ts ELSE now
    /\ nops' = IF rec' # rec \/ now' # now THEN nops + 1 ELSE nops
    /\ limit' = limit
    /\ text' = text
    /\ tq' = tq
    /\ keyer' = keyer
    /\ sender' = sender

(* A call of the library that is not made through the Receiver object. *)
Called(op, ts, arg, res) == Returning(op, ts, arg, res) /\ xcwcp' = xcwcp

(* cw_start_receive_tone(timestamp) *)
StartReceiveTone(ts) ==
    /\ Called("start_receive_tone", ts, 0, cw_rec_mark_begin_internal(rec, ts))
    /\ pre' = IF last'.rv THEN Snapshot(rec) ELSE pre
    /\ UNCHANGED <<fed, heard>>

(* cw_end_receive_tone(timestamp); arg is the length of the mark, and an  *)
(* accepted mark is logged in fed.                                         *)
EndReceiveTone(ts) ==
    /\ Called("end_receive_tone", ts,
              IF cw_timestamp_validate_internal(ts)
              THEN cw_timestamp_compare_internal(rec.mark_start, ts) ELSE 0,
              cw_rec_mark_end_internal(rec, ts))
    /\ fed' = IF last'.rv THEN Append(fed, last'.arg) ELSE fed
    /\ UNCHANGED <<pre, heard>>

(* cw_receive_buffer_dot(timestamp) *)
ReceiveBufferDot(ts) ==
    /\ Called("receive_buffer_dot", ts, 0,
              cw_rec_add_mark_internal(rec, ts, CW_DOT_REPRESENTATION))
    /\ UNCHANGED <<pre, fed, heard>>

(* cw_receive_buffer_dash(timestamp) *)
ReceiveBufferDash(ts) ==
    /\ Called("receive_buffer_dash", ts, 0,
              cw_rec_add_mark_internal(rec, ts, CW_DASH_REPRESENTATION))
    /\ UNCHANGED <<pre, fed, heard>>

(* cw_receive_representation(timestamp, representation, is_end_of_word, is_error) *)
ReceiveRepresentation(ts) ==
    /\ Called("receive_representation", ts, 0,
              cw_rec_poll_representation_internal(rec, ts))
    /\ UNCHANGED <<pre, fed, heard>>

(* cw_receive_character(timestamp, c, is_end_of_word, is_error); what a   *)
(* successful call returned is logged in heard.                            *)
ReceiveCharacter(ts) ==
    /\ Called("receive_character", ts, 0, cw_rec_poll_character_internal(rec, ts))
    /\ heard' = IF last'.rv
                THEN Append(heard, [c |-> last'.c, is_end_of_word |-> last'.is_end_of_word])
                ELSE heard
    /\ UNCHANGED <<pre, fed>>

(* cw_clear_receive_buffer() *)
ClearReceiveBuffer ==
    /\ Called("clear_receive_buffer", now, 0, Success(cw_clear_receive_buffer(rec)))
    /\ UNCHANGED <<pre, fed, heard>>

(* cw_reset_receive() *)
ResetReceive ==
    /\ Called("reset_receive", now, 0, Success(cw_reset_receive(rec)))
    /\ fed' = << >>
    /\ UNCHANGED <<pre, heard>>

(* cw_enable_adaptive_receive() *)
EnableAdaptiveReceive ==
    /\ Called("enable_adaptive_receive", now, 0,
              Success(cw_rec_set_adaptive_internal(rec, TRUE)))
    /\ UNCHANGED <<pre, fed, heard>>

(* cw_disable_adaptive_receive() *)
DisableAdaptiveReceive ==
    /\ Called("disable_adaptive_receive", now, 0,
              Success(cw_rec_set_adaptive_internal(rec, FALSE)))
    /\ UNCHANGED <<pre, fed, heard>>

(* cw_set_receive_speed(new_value) *)
SetReceiveSpeed(new_value) ==
    /\ Called("set_receive_speed", now, new_value, cw_set_receive_speed(rec, new_value))
    /\ UNCHANGED <<pre, fed, heard>>

(* cw_set_tolerance(new_value) *)
SetTolerance(new_value) ==
    /\ Called("set_tolerance", now, new_value, cw_set_tolerance(rec, new_value))
    /\ UNCHANGED <<pre, fed, heard>>

(* cw_set_noise_spike_threshold(new_value) *)
SetNoiseSpikeThreshold(new_value) ==
    /\ Called("set_noise_spike_threshold", now, new_value,
              cw_set_noise_spike_threshold(rec, new_value))
    /\ UNCHANGED <<pre, fed, heard>>

(* cw_rec_set_gap_internal(&cw_receiver, new_value) *)
SetGap(new_value) ==
    /\ Called("set_gap", now, new_value, cw_rec_set_gap_internal(rec, new_value))
    /\ UNCHANGED <<pre, fed, heard>>

(* cw_rec_reset_receive_parameters_internal(&cw_receiver) *)
ResetReceiveParameters ==
    /\ Called("reset_receive_parameters", now, 0,
              Success(cw_rec_reset_receive_parameters_internal(rec)))
    /\ UNCHANGED <<pre, fed, heard>>

(* cw_get_receive_parameters(): the timings are read from the receiver    *)
(* once it is synchronised.                                                *)
GetReceiveParameters ==
    /\ Called("get_receive_parameters", now, 0,
              Success(cw_rec_sync_parameters_internal(rec)))
    /\ UNCHANGED <<pre, fed, heard>>

(* cw_rec_identify_mark_internal(&cw_receiver, mark_len, &mark), as the   *)
(* test of the function calls it; the mark is returned as a representation *)
(* of one mark.                                                            *)
IdentifyMark(mark_len) ==
    /\ Called("identify_mark", now, mark_len,
              Identified(cw_rec_identify_mark_internal(rec, mark_len)))
    /\ UNCHANGED <<pre, fed, heard>>

(***************************************************************************)
(* The client of Spec: a key and a poller, the receiver at its initial     *)
(* parameters.  The lengths of marks and the gaps before a poll are the    *)
(* edges of the ranges of those parameters.  A call that the receiver      *)
(* refuses for its state, before it looks at the timestamp, is made with   *)
(* the current time.                                                       *)
(***************************************************************************)
UnitInitial == CW_DOT_CALIBRATION \div CW_SPEED_INITIAL

ToleranceInitial == (UnitInitial * CW_TOLERANCE_INITIAL) \div 100

MarkLengths ==
    {CW_REC_NOISE_THRESHOLD_INITIAL,         \* noise, at the threshold
     UnitInitial,                            \* a dot
     2 * UnitInitial,                        \* neither a dot nor a dash
     3 * UnitInitial - ToleranceInitial,     \* the shortest dash
     3 * UnitInitial + ToleranceInitial,     \* the longest dash
     3 * UnitInitial + ToleranceInitial + 1} \* longer than any dash

SpaceLengths == {UnitInitial}

PollGaps ==
    {UnitInitial,                            \* inside a character
     3 * UnitInitial - ToleranceInitial,     \* the shortest end-of-character gap
     3 * UnitInitial + ToleranceInitial,     \* the longest end-of-character gap
     3 * UnitInitial + ToleranceInitial + 1, \* an end-of-word gap
     INT_MAX}                                \* the longest gap an int holds

Stamps(accepting, lengths) ==
    IF rec.state \in accepting
    THEN {Later(now, d) : d \in lengths} \cup {BadTimeval}
    ELSE {now}

Next ==
    \/ \E ts \in Stamps({RS_IDLE, RS_SPACE}, SpaceLengths) : StartReceiveTone(ts)
    \/ \E ts \in Stamps({RS_MARK}, MarkLengths) : EndReceiveTone(ts)
    \/ \E ts \in Stamps({RS_IDLE, RS_SPACE}, SpaceLengths) : ReceiveBufferDot(ts)
    \/ \E ts \in Stamps({RS_IDLE, RS_SPACE}, SpaceLengths) : ReceiveBufferDash(ts)
    \/ \E ts \in Stamps(ReceiverStates \ {RS_IDLE, RS_MARK}, PollGaps) :
           ReceiveRepresentation(ts)
    \/ ClearReceiveBuffer
    \/ ResetReceive

Spec == Init /\ [][Next]_vars

(***************************************************************************)
(* Properties of Spec.                                                     *)
(***************************************************************************)

(* The marks accumulated in the buffer, as a sequence. *)
Accumulated(r) == [i \in 1 .. r.representation_ind |-> r.representation[i - 1]]

(* A step that is a call of cw_receive_representation() with a well       *)
(* formed timestamp.                                                       *)
Polled ==
    /\ last'.op = "receive_representation"
    /\ cw_timestamp_validate_internal(last'.ts)

(* The length of the space from the end of the latest mark to ts. *)
SpaceLen(ts) == cw_timestamp_compare_internal(rec.mark_end, ts)

(* C1: a poll in state Space with S the time since the end of the latest *)
(* mark: with eoc_len_min <= S <= eoc_len_max it succeeds, the state       *)
(* becomes EocGap and end_of_word is false; with S > eoc_len_max it        *)
(* succeeds, the state becomes EowGap and end_of_word is true; with        *)
(* S < eoc_len_min it fails with EAGAIN and state and buffer are           *)
(* unchanged.  A successful poll returns the marks accumulated so far.     *)
C1_PollInSpace ==
    [][ (rec.state = RS_SPACE /\ Polled) =>
            LET S == SpaceLen(last'.ts)
            IN  /\ (S >= rec'.eoc_len_min /\ S <= rec'.eoc_len_max) =>
                       /\ last'.rv
                       /\ rec'.state = RS_EOC_GAP
                       /\ ~last'.is_end_of_word
                       /\ last'.representation = Accumulated(rec)
                /\ S > rec'.eoc_len_max =>
                       /\ last'.rv
                       /\ rec'.state = RS_EOW_GAP
                       /\ last'.is_end_of_word
                       /\ last'.representation = Accumulated(rec)
                /\ S < rec'.eoc_len_min =>
                       /\ ~last'.rv
                       /\ last'.errno = EAGAIN
                       /\ rec'.state = rec.state
                       /\ rec'.representation_ind = rec.representation_ind
                       /\ rec'.representation = rec.representation
      ]_vars

(* C2, as stated: in EocGap and in EowGap every further poll succeeds,    *)
(* returns the same representation and the same end_of_word flag and       *)
(* leaves the state unchanged, whatever the later timestamp.               *)
C2_PollIdempotent ==
    [][ (rec.state \in {RS_EOC_GAP, RS_EOW_GAP} /\ Polled) =>
            /\ last'.rv
            /\ last'.representation = Accumulated(rec)
            /\ last'.is_end_of_word = (rec.state = RS_EOW_GAP)
            /\ rec'.state = rec.state
      ]_vars

(* C2, amended: in EowGap every further poll succeeds, returns the same   *)
(* representation with end_of_word true and leaves the receiver            *)
(* unchanged.  In EocGap a further poll at a space S since the end of the  *)
(* latest mark returns the same representation with end_of_word false and  *)
(* leaves the receiver unchanged while S <= eoc_len_max, moves the         *)
(* receiver to EowGap and returns the same representation with             *)
(* end_of_word true once eoc_len_max < S < INT_MAX, and fails with EAGAIN, *)
(* the receiver unchanged, from S = INT_MAX on.                            *)
C2_PollAfterPoll ==
    [][ (rec.state \in {RS_EOC_GAP, RS_EOW_GAP} /\ last'.op = "receive_representation") =>
            IF rec.state = RS_EOW_GAP
            THEN /\ last'.rv
                 /\ last'.representation = Accumulated(rec)
                 /\ last'.is_end_of_word
                 /\ rec' = rec
            ELSE cw_timestamp_validate_internal(last'.ts) =>
                 LET S == SpaceLen(last'.ts)
                 IN  IF S <= rec.eoc_len_max
                     THEN /\ last'.rv
                          /\ last'.representation = Accumulated(rec)
                          /\ ~last'.is_end_of_word
                          /\ rec' = rec
                     ELSE IF S < INT_MAX
                     THEN /\ last'.rv
                          /\ last'.representation = Accumulated(rec)
                          /\ last'.is_end_of_word
                          /\ rec' = [rec EXCEPT !.state = RS_EOW_GAP]
                     ELSE /\ ~last'.rv
                          /\ last'.errno = EAGAIN
                          /\ rec' = rec
      ]_vars

(* A poll in EocGap has moved the receiver to EowGap. *)
C2_Witness ==
    /\ last.op = "receive_representation"
    /\ last.from = RS_EOC_GAP
    /\ rec.state = RS_EOW_GAP
    /\ last.rv /\ last.is_end_of_word
    /\ Len(last.representation) >= 1

(* C3: when the mark that ends is no longer than a positive noise         *)
(* threshold, cw_end_receive_tone() fails with EAGAIN, the number of marks *)
(* in the buffer and the stored end of mark are what they were before the  *)
(* cw_start_receive_tone() of this mark, and so is the state: Idle if no   *)
(* mark was in the buffer, Space otherwise.                                *)
C3_NoiseRollback ==
    [][ ( /\ rec.state = RS_MARK
          /\ last'.op = "end_receive_tone"
          /\ cw_timestamp_validate_internal(last'.ts)
          /\ rec.noise_spike_threshold > 0
          /\ cw_timestamp_compare_internal(rec.mark_start, last'.ts)
                 <= rec.noise_spike_threshold ) =>
            /\ ~last'.rv
            /\ last'.errno = EAGAIN
            /\ rec'.representation_ind = pre.representation_ind
            /\ rec'.mark_end = pre.mark_end
            /\ rec'.state = pre.state
            /\ pre.state = IF pre.representation_ind = 0 THEN RS_IDLE ELSE RS_SPACE
      ]_vars

(* A noise mark inside a character has been rolled back to Space. *)
C3_Witness ==
    /\ last.op = "end_receive_tone"
    /\ last.from = RS_MARK
    /\ last.errno = EAGAIN
    /\ rec.state = RS_SPACE
    /\ rec.representation_ind >= 1

(* C9: cw_end_receive_tone() in a state other than Mark, and               *)
(* cw_start_receive_tone() and cw_receive_buffer_dot/dash() in a state     *)
(* other than Idle and Space, fail with ERANGE and leave the whole         *)
(* receiver (state, buffer, timestamps, statistics) as it was.             *)
C9_WrongStateRejected ==
    [][ ( \/ last'.op = "end_receive_tone" /\ rec.state # RS_MARK
          \/ /\ last'.op \in {"start_receive_tone", "receive_buffer_dot",
                              "receive_buffer_dash"}
             /\ rec.state \notin {RS_IDLE, RS_SPACE} ) =>
            /\ ~last'.rv
            /\ last'.errno = ERANGE
            /\ rec' = rec
      ]_vars

(* A mark was begun after a poll, without a clear, and was refused. *)
C9_Witness ==
    /\ last.op = "start_receive_tone"
    /\ last.from = RS_EOC_GAP
    /\ ~last.rv
    /\ rec.state = RS_EOC_GAP

(* C10: cw_clear_receive_buffer() sets the state to Idle and the number   *)
(* of buffered marks to 0 and changes nothing else of the receiver;        *)
(* cw_reset_receive() does the same and empties the statistics ring.       *)
C10_ClearAndReset ==
    [][ /\ last'.op = "clear_receive_buffer" =>
            rec' = [rec EXCEPT !.state = RS_IDLE, !.representation_ind = 0]
        /\ last'.op = "reset_receive" =>
            rec' = [rec EXCEPT !.state = RS_IDLE, !.representation_ind = 0,
                               !.statistics = StatisticsInitial,
                               !.statistics_ind = 0]
      ]_vars

(* A clear after the end of a word: Idle, with the statistics kept. *)
C10_Witness ==
    /\ last.op = "clear_receive_buffer"
    /\ last.from = RS_EOW_GAP
    /\ rec.state = RS_IDLE
    /\ rec.representation_ind = 0
    /\ rec.statistics_ind > 0

(***************************************************************************)
(* SpecOverflow: a key sends dots without end, one dot length apart, and   *)
(* nobody polls or clears.                                                 *)
(***************************************************************************)
MaxPairs == 257

InitOverflow == Started(cw_receiver, 2 * MaxPairs)

(* The key is down from a cw_start_receive_tone() to the next             *)
(* cw_end_receive_tone().                                                  *)
KeyIsDown == last.op = "start_receive_tone"

KeyDown == ~KeyIsDown /\ StartReceiveTone(Later(now, UnitInitial))

KeyUp == KeyIsDown /\ EndReceiveTone(Later(now, UnitInitial))

NextOverflow == KeyDown \/ KeyUp

SpecOverflow == InitOverflow /\ [][NextOverflow]_vars

(* The number of the mark that the latest cw_end_receive_tone() ended. *)
Pair == nops \div 2

(* C4: the first 256 marks, each a cw_start_receive_tone() followed by a  *)
(* cw_end_receive_tone(), are accepted; the cw_end_receive_tone() of the  *)
(* 257th fails with ENOMEM and leaves the receiver in EocGapErr.           *)
C4_Capacity ==
    (last.op = "end_receive_tone" /\ last.from = RS_MARK) =>
        IF Pair <= CW_REC_REPRESENTATION_CAPACITY
        THEN last.rv /\ rec.state = RS_SPACE
        ELSE ~last.rv /\ last.errno = ENOMEM /\ rec.state = RS_EOC_GAP_ERR

(* What the code does: the mark that makes representation_ind equal to    *)
(* CW_REC_REPRESENTATION_CAPACITY - 1 is refused.                          *)
C4_CodeCapacity ==
    (last.op = "end_receive_tone" /\ last.from = RS_MARK) =>
        /\ rec.representation_ind = Pair
        /\ IF Pair < CW_REC_REPRESENTATION_CAPACITY - 1
           THEN last.rv /\ rec.state = RS_SPACE
           ELSE /\ Pair = CW_REC_REPRESENTATION_CAPACITY - 1
                /\ ~last.rv /\ last.errno = ENOMEM /\ rec.state = RS_EOC_GAP_ERR

(***************************************************************************)
(* SpecIdentify: the test of cw_rec_identify_mark_internal, in fixed mode: *)
(* a speed and a tolerance have been set and the function is called on the *)
(* edges of the ranges that cw_get_receive_parameters() reports.           *)
(***************************************************************************)
MaxIdentifyOps == 2

Tolerances == {CW_TOLERANCE_MIN, CW_TOLERANCE_INITIAL, CW_TOLERANCE_MAX}

(* The receiver after cw_set_receive_speed(w) and cw_set_tolerance(t). *)
FixedReceiver(w, t) == cw_set_tolerance(cw_set_receive_speed(cw_receiver, w).rec, t).rec

(* The edges of the ranges of r, the parameters being in sync. *)
RangeEdges(r) ==
    {r.dot_len_min - 1, r.dot_len_min, r.dot_len_ideal, r.dot_len_max, r.dot_len_max + 1,
     r.dash_len_min - 1, r.dash_len_min, r.dash_len_ideal, r.dash_len_max,
     r.dash_len_max + 1}

(* cw_get_receive_parameters() synchronises the parameters first. *)
ReportedEdges == RangeEdges(cw_rec_sync_parameters_internal(rec))

InitIdentify ==
    \E w \in CW_SPEED_MIN .. CW_SPEED_MAX, t \in Tolerances :
        Started(FixedReceiver(w, t), MaxIdentifyOps)

NextIdentify == \E mark_len \in ReportedEdges : IdentifyMark(mark_len)

SpecIdentify == InitIdentify /\ [][NextIdentify]_vars

(* C5: in fixed mode, at every speed from CW_SPEED_MIN to CW_SPEED_MAX,   *)
(* a mark length in [dot_len_min, dot_len_max] is identified as a dot, one *)
(* in [dash_len_min, dash_len_max] as a dash, and the lengths              *)
(* dot_len_min - 1, dot_len_max + 1, dash_len_min - 1 and dash_len_max + 1 *)
(* are not identified.                                                     *)
C5_IdentifyFixed ==
    (last.op = "identify_mark" /\ ~rec.is_adaptive_receive_mode) =>
        /\ rec.speed \in CW_SPEED_MIN .. CW_SPEED_MAX
        /\ (last.arg >= rec.dot_len_min /\ last.arg <= rec.dot_len_max) =>
               last.rv /\ last.representation = <<CW_DOT_REPRESENTATION>>
        /\ (last.arg >= rec.dash_len_min /\ last.arg <= rec.dash_len_max) =>
               last.rv /\ last.representation = <<CW_DASH_REPRESENTATION>>
        /\ last.arg \in {rec.dot_len_min - 1, rec.dot_len_max + 1,
                         rec.dash_len_min - 1, rec.dash_len_max + 1} =>
               ~last.rv /\ last.errno = ENOENT

(* The longest dash of the highest speed, at the widest tolerance. *)
C5_Witness ==
    /\ last.op = "identify_mark"
    /\ rec.speed = CW_SPEED_MAX
    /\ rec.tolerance = CW_TOLERANCE_MAX
    /\ last.arg = rec.dash_len_max
    /\ last.representation = <<CW_DASH_REPRESENTATION>>

(***************************************************************************)
(* SpecAdaptive: a key and a client that switches the adaptive mode and    *)
(* the noise filter.  The marks are as short and as long as an int allows  *)
(* and lie on the edges of the noise threshold and of the dot range.       *)
(***************************************************************************)
MaxAdaptiveOps == 6

AdaptiveMarkLengths ==
    {0, 1, CW_REC_NOISE_THRESHOLD_INITIAL, CW_REC_NOISE_THRESHOLD_INITIAL + 1,
     rec.dot_len_max, rec.dot_len_max + 1, 100 * UnitInitial, INT_MAX}

InitAdaptive == Started(cw_receiver, MaxAdaptiveOps)

NextAdaptive ==
    \/ EnableAdaptiveReceive
    \/ DisableAdaptiveReceive
    \/ \E t \in {0, CW_REC_NOISE_THRESHOLD_INITIAL} : SetNoiseSpikeThreshold(t)
    \/ \E ts \in Stamps({RS_IDLE, RS_SPACE}, SpaceLengths) : StartReceiveTone(ts)
    \/ \E ts \in Stamps({RS_MARK}, AdaptiveMarkLengths) : EndReceiveTone(ts)
    \/ ClearReceiveBuffer

SpecAdaptive == InitAdaptive /\ [][NextAdaptive]_vars

(* C6: in adaptive mode the dot range is [0, 2 * dot_len_ideal] and the   *)
(* dash range [2 * dot_len_ideal, INT_MAX], and every mark of a length     *)
(* L >= 0 that is not noise is identified as a dot or as a dash; unless    *)
(* the sum of an average overflows, the call does not fail with ENOENT,    *)
(* the receiver is in no error state and the mark is in the buffer.        *)
C6_AdaptiveIdentifies ==
    [][ ( /\ rec.state = RS_MARK
          /\ rec.is_adaptive_receive_mode
          /\ last'.op = "end_receive_tone"
          /\ cw_timestamp_validate_internal(last'.ts)
          /\ ~IsNoiseSpike(rec, last'.arg) ) =>
            /\ rec.dot_len_min = 0
            /\ rec.dot_len_max = 2 * rec.dot_len_ideal
            /\ rec.dash_len_min = 2 * rec.dot_len_ideal
            /\ rec.dash_len_max = INT_MAX
            /\ last'.arg >= 0
            /\ cw_rec_identify_mark_internal(rec, last'.arg).rv
            /\ cw_rec_identify_mark_internal(rec, last'.arg).mark =
                   IF last'.arg <= 2 * rec.dot_len_ideal
                   THEN CW_DOT_REPRESENTATION ELSE CW_DASH_REPRESENTATION
            /\ ~rec'.overflow =>
                   /\ last'.errno # ENOENT
                   /\ rec'.state \notin {RS_EOC_GAP_ERR, RS_EOW_GAP_ERR}
                   /\ rec'.representation_ind = rec.representation_ind + 1
                   /\ rec'.representation[rec.representation_ind] =
                          cw_rec_identify_mark_internal(rec, last'.arg).mark
      ]_vars

(* A mark of length 0 was taken as a dot and a longer mark after it as a  *)
(* dash, the averages defined.                                             *)
C6_Witness ==
    /\ last.op = "end_receive_tone"
    /\ rec.is_adaptive_receive_mode
    /\ ~rec.overflow
    /\ last.rv
    /\ rec.representation_ind = 2
    /\ rec.representation[0] = CW_DOT_REPRESENTATION
    /\ rec.representation[1] = CW_DASH_REPRESENTATION
    /\ fed[1] = 0
    /\ fed[2] < INT_MAX

(***************************************************************************)
(* SpecTrack: the receiver, at its initial speed of 12 WPM, is switched to *)
(* adaptive mode and a key sends the dots and dashes of 15 WPM, in any     *)
(* order.                                                                  *)
(***************************************************************************)
MaxTrackMarks == 14

TrackDot == CW_DOT_CALIBRATION \div 15

TrackDash == 3 * TrackDot

InitTrack == Started(cw_receiver, 1 + 2 * MaxTrackMarks)

TrackAdaptive == ~rec.is_adaptive_receive_mode /\ EnableAdaptiveReceive

TrackKeyDown ==
    /\ rec.is_adaptive_receive_mode
    /\ ~KeyIsDown
    /\ StartReceiveTone(Later(now, TrackDot))

TrackKeyUp ==
    /\ KeyIsDown
    /\ \E mark_len \in {TrackDot, TrackDash} : EndReceiveTone(Later(now, mark_len))

NextTrack == TrackAdaptive \/ TrackKeyDown \/ TrackKeyUp

SpecTrack == InitTrack /\ [][NextTrack]_vars

(* The number of accepted marks that the key sent with this length. *)
Fed(mark_len) == Cardinality({i \in 1 .. Len(fed) : fed[i] = mark_len})

(* C7: once the receiver has accepted at least 4 of the dots and 4 of the *)
(* dashes, the speed it reports after every mark is from 13 to 17 WPM.     *)
C7_TracksSpeed ==
    (last.op = "end_receive_tone" /\ Fed(TrackDot) >= 4 /\ Fed(TrackDash) >= 4) =>
        /\ last.rv
        /\ rec.speed >= 13
        /\ rec.speed <= 17

(* Four dots, then four dashes: the first marks are taken at the initial  *)
(* averages.                                                                *)
C7_Witness ==
    /\ last.op = "end_receive_tone"
    /\ fed = <<TrackDot, TrackDot, TrackDot, TrackDot,
               TrackDash, TrackDash, TrackDash, TrackDash>>
    /\ rec.speed \in 13 .. 17

(***************************************************************************)
(* SpecEcho: the receiver, in fixed mode at a speed from CW_SPEED_MIN to   *)
(* CW_SPEED_MAX, hears a key that sends a text with the ideal timings of   *)
(* that speed: a dot of one unit, a dash of three, a space of one unit     *)
(* between the marks of a character and of three units between             *)
(* characters.  The client polls cw_receive_character() at the end of the  *)
(* space after a character and clears the buffer before the next mark;     *)
(* after the last character it polls once more, seven units after the      *)
(* last mark.                                                              *)
(***************************************************************************)
MaxText == 2

MaxMarks == 4

EchoCharacters == {"E", "T", "C", "Q"}

EchoTexts == UNION {[1 .. n -> EchoCharacters] : n \in 1 .. MaxText}

EchoUnit == CW_DOT_CALIBRATION \div rec.speed

(* The marks of a character, the last of them flagged. *)
CharacterMarks(character) ==
    LET representation == cw_character_to_representation_internal(character)
    IN  [i \in 1 .. Len(representation) |->
            [mark |-> representation[i], ends |-> i = Len(representation)]]

RECURSIVE TextMarks(_)
TextMarks(t) ==
    IF t = << >> THEN << >> ELSE CharacterMarks(Head(t)) \o TextMarks(Tail(t))

(* The key has sent the marks that the receiver logged. *)
Sent == Len(fed)

InitEcho ==
    \E w \in CW_SPEED_MIN .. CW_SPEED_MAX, t \in EchoTexts :
        StartedWith(cw_set_receive_speed(cw_receiver, w).rec,
                    MaxText * (2 * MaxMarks + 2) + 1, t)

EchoKeyDown ==
    /\ Sent < Len(TextMarks(text))
    /\ \/ /\ last.op = "none"
          /\ StartReceiveTone(now)
       \/ /\ last.op = "clear_receive_buffer"
          /\ StartReceiveTone(now)
       \/ /\ last.op = "end_receive_tone"
          /\ ~TextMarks(text)[Sent].ends
          /\ StartReceiveTone(Later(now, EchoUnit))

EchoKeyUp ==
    /\ KeyIsDown
    /\ Sent < Len(TextMarks(text))
    /\ EndReceiveTone(Later(now, IF TextMarks(text)[Sent + 1].mark = CW_DOT_REPRESENTATION
                                 THEN EchoUnit ELSE 3 * EchoUnit))

EchoPollCharacter ==
    /\ last.op = "end_receive_tone"
    /\ Sent > 0
    /\ TextMarks(text)[Sent].ends
    /\ ReceiveCharacter(Later(now, 3 * EchoUnit))

EchoClear ==
    /\ last.op = "receive_character"
    /\ Sent < Len(TextMarks(text))
    /\ ClearReceiveBuffer

EchoPollSpace ==
    /\ last.op = "receive_character"
    /\ Sent = Len(TextMarks(text))
    /\ Len(heard) <= Len(text)
    /\ ReceiveCharacter(Later(now, 4 * EchoUnit))

NextEcho == EchoKeyDown \/ EchoKeyUp \/ EchoPollCharacter \/ EchoClear \/ EchoPollSpace

SpecEcho == InitEcho /\ [][NextEcho]_vars

(* The number of characters of which the key has sent every mark. *)
Keyed == Cardinality({i \in 1 .. Sent : TextMarks(text)[i].ends})

(* C8: the receiver takes every mark of the key, every poll succeeds, the *)
(* polls at the end of a space of three units return the keyed characters  *)
(* in their order with is_end_of_word false, and the poll seven units      *)
(* after the last mark returns is_end_of_word true.                        *)
C8_EchoDecodes ==
    /\ last.op \in {"start_receive_tone", "end_receive_tone"} => last.rv
    /\ last.op = "receive_character" =>
           /\ last.rv
           /\ Len(heard) \in {Keyed, Keyed + 1}
           /\ \A i \in 1 .. Keyed :
                  heard[i].c = text[i] /\ ~heard[i].is_end_of_word
           /\ Len(heard) = Keyed + 1 =>
                  /\ Keyed = Len(text)
                  /\ cw_timestamp_compare_internal(rec.mark_end, now) = 7 * EchoUnit
                  /\ heard[Keyed + 1].is_end_of_word
           /\ cw_timestamp_compare_internal(rec.mark_end, now) = 7 * EchoUnit =>
                  Len(heard) = Len(text) + 1

(* CQ was keyed at the highest speed and heard, and the space after it    *)
(* was reported as the end of a word.                                      *)
C8_Witness ==
    /\ text = <<"C", "Q">>
    /\ rec.speed = CW_SPEED_MAX
    /\ ~rec.is_adaptive_receive_mode
    /\ last.op = "receive_character"
    /\ Len(heard) = 3
    /\ heard[1] = [c |-> "C", is_end_of_word |-> FALSE]
    /\ heard[2] = [c |-> "Q", is_end_of_word |-> FALSE]
    /\ heard[3].is_end_of_word

(***************************************************************************)
(* Further properties of Spec.                                             *)
(***************************************************************************)

(* C11, as stated: a poll in Mark fails with EAGAIN, the errno of a poll  *)
(* made too early within a space, and leaves the receiver unchanged.       *)
C11_PollInMarkAgain ==
    [][ (rec.state = RS_MARK /\ last'.op = "receive_representation") =>
            /\ ~last'.rv
            /\ last'.errno = EAGAIN
            /\ rec' = rec
      ]_vars

(* C11, amended: a poll in Mark fails with ERANGE, which is not the errno *)
(* of a poll made too early within a space (EAGAIN), and leaves the        *)
(* receiver unchanged.                                                     *)
C11_PollInMarkRefused ==
    [][ /\ (rec.state = RS_MARK /\ last'.op = "receive_representation") =>
               /\ ~last'.rv
               /\ last'.errno = ERANGE
               /\ rec' = rec
        /\ (rec.state = RS_SPACE /\ Polled /\ SpaceLen(last'.ts) < rec'.eoc_len_min) =>
               /\ ~last'.rv
               /\ last'.errno = EAGAIN
      ]_vars

(* A poll while the key was down, after a mark was buffered. *)
C11_Witness ==
    /\ last.op = "receive_representation"
    /\ last.from = RS_MARK
    /\ ~last.rv
    /\ last.errno = ERANGE
    /\ rec.state = RS_MARK
    /\ rec.representation_ind >= 1

(* A cw_end_receive_tone() that discarded its mark as noise. *)
NoiseDiscarded == last.op = "end_receive_tone" /\ ~last.rv /\ last.errno = EAGAIN

(* C16: a cw_start_receive_tone() and cw_end_receive_tone() pair          *)
(* discarded as noise adds no record to the statistics ring: the ring and  *)
(* its index are those the receiver held before the pair.                  *)
C16_NoiseLeavesNoRecord ==
    [][ NoiseDiscarded' =>
            /\ rec'.statistics = pre'.statistics
            /\ rec'.statistics_ind = pre'.statistics_ind
      ]_vars

(* What the pair leaves: the record of the space that ended at its        *)
(* cw_start_receive_tone(), when a mark of the character preceded it.      *)
C16_NoiseRecordsSpace ==
    [][ NoiseDiscarded' =>
            /\ rec'.statistics_ind =
                   IF pre'.state = RS_SPACE
                   THEN (pre'.statistics_ind + 1) % CW_REC_STATISTICS_CAPACITY
                   ELSE pre'.statistics_ind
            /\ rec'.statistics =
                   IF pre'.state = RS_SPACE
                   THEN [pre'.statistics EXCEPT ![pre'.statistics_ind] =
                            [type |-> CW_REC_STAT_IMARK_SPACE,
                             delta |-> cw_timestamp_compare_internal(pre'.mark_end, rec'.mark_start)
                                          - rec'.eom_len_ideal]]
                   ELSE pre'.statistics
      ]_vars

(***************************************************************************)
(* SpecSticky: a key sends marks, one dot length apart, until the receiver *)
(* refuses one: the first two marks may be too long for a dot or for a     *)
(* dash, the others are dots, so that the buffer fills up.  The client of  *)
(* Spec goes on from there until it has cleared the error.                 *)
(***************************************************************************)
MaxStickyOps == 3

InitSticky ==
    Started(cw_receiver, 2 * CW_REC_REPRESENTATION_CAPACITY + MaxStickyOps)

(* Every call so far was a key event that the receiver accepted. *)
Filling == nops = 2 * Len(fed) + (IF KeyIsDown THEN 1 ELSE 0)

StickyMarkLengths ==
    IF rec.representation_ind <= 1
    THEN {UnitInitial,                             \* a dot
          2 * UnitInitial,                         \* neither a dot nor a dash
          3 * UnitInitial + ToleranceInitial + 1}  \* longer than any dash
    ELSE {UnitInitial}

StickyKeyDown == Filling /\ KeyDown

StickyKeyUp ==
    /\ Filling
    /\ KeyIsDown
    /\ \E mark_len \in StickyMarkLengths : EndReceiveTone(Later(now, mark_len))

StickyClient ==
    /\ rec.state \in {RS_EOC_GAP_ERR, RS_EOW_GAP_ERR}
    /\ nops < 2 * Len(fed) + 2 + MaxStickyOps
    /\ Next

NextSticky == StickyKeyDown \/ StickyKeyUp \/ StickyClient

SpecSticky == InitSticky /\ [][NextSticky]_vars

ErrorStates == {RS_EOC_GAP_ERR, RS_EOW_GAP_ERR}

(* C12: from an error state no call but cw_clear_receive_buffer() and     *)
(* cw_reset_receive() leads to a state that is not an error state, the     *)
(* only change of state is from EocGapErr to EowGapErr, every successful   *)
(* poll reports is_error true and the marks in the buffer, and a clear or  *)
(* a reset leads to Idle.                                                  *)
C12_ErrorSticky ==
    [][ rec.state \in ErrorStates =>
            /\ last'.op \notin {"clear_receive_buffer", "reset_receive"} =>
                   /\ rec'.state \in ErrorStates
                   /\ rec'.state # rec.state =>
                          rec.state = RS_EOC_GAP_ERR /\ rec'.state = RS_EOW_GAP_ERR
                   /\ rec'.representation_ind = rec.representation_ind
            /\ (last'.op = "receive_representation" /\ last'.rv) =>
                   /\ last'.is_error
                   /\ last'.representation = Accumulated(rec)
            /\ last'.op \in {"clear_receive_buffer", "reset_receive"} =>
                   rec'.state = RS_IDLE
      ]_vars

(* The buffer was reported full, and a poll after the end-of-character    *)
(* gap has returned its 255 marks with is_error true and moved the         *)
(* receiver from EocGapErr to EowGapErr.                                   *)
C12_Witness ==
    /\ last.op = "receive_representation"
    /\ last.from = RS_EOC_GAP_ERR
    /\ rec.state = RS_EOW_GAP_ERR
    /\ last.rv /\ last.is_error /\ last.is_end_of_word
    /\ Len(last.representation) = CW_REC_REPRESENTATION_CAPACITY - 1

(***************************************************************************)
(* Further properties of SpecAdaptive.                                     *)
(***************************************************************************)

(* The call of cw_end_receive_tone() has returned and its mark went into  *)
(* the averages.                                                           *)
Averaged ==
    /\ rec.is_adaptive_receive_mode
    /\ last'.op = "end_receive_tone"
    /\ last'.errno \in {NoErrno, ENOMEM}
    /\ ~rec'.sigfpe

(* The speed of the threshold that the averages of r give. *)
SpeedOfAverages(r) ==
    CDiv(CW_DOT_CALIBRATION,
         CDiv(AdaptiveThreshold(r.dot_averaging.average, r.dash_averaging.average), 2))

(* C13: when cw_end_receive_tone() returns in adaptive mode, whatever the *)
(* length of the mark and whatever it returns, the speed is from           *)
(* CW_SPEED_MIN to CW_SPEED_MAX, the receiver is in adaptive mode and the  *)
(* parameters are in sync; when the speed of the new averages was out of   *)
(* that range, the speed is the nearer end of the range, dot_len_ideal is  *)
(* CW_DOT_CALIBRATION / speed and the threshold 2 * dot_len_ideal.         *)
C13_AdaptiveClamp ==
    [][ /\ ( /\ rec.is_adaptive_receive_mode
             /\ last'.op = "end_receive_tone"
             /\ ~rec'.sigfpe ) =>
               /\ rec'.speed >= CW_SPEED_MIN
               /\ rec'.speed <= CW_SPEED_MAX
               /\ rec'.is_adaptive_receive_mode
               /\ rec'.parameters_in_sync
        /\ (Averaged /\ SpeedOfAverages(rec') \notin CW_SPEED_MIN .. CW_SPEED_MAX) =>
               /\ rec'.speed = IF SpeedOfAverages(rec') < CW_SPEED_MIN
                               THEN CW_SPEED_MIN ELSE CW_SPEED_MAX
               /\ rec'.dot_len_ideal = CW_DOT_CALIBRATION \div rec'.speed
               /\ rec'.adaptive_speed_threshold = 2 * rec'.dot_len_ideal
      ]_vars

(* A long dash has taken the speed below the range, and it was clamped to *)
(* CW_SPEED_MIN.                                                           *)
C13_Witness ==
    /\ last.op = "end_receive_tone"
    /\ last.rv
    /\ last.arg = 100 * UnitInitial
    /\ rec.is_adaptive_receive_mode
    /\ ~rec.overflow
    /\ rec.speed = CW_SPEED_MIN
    /\ rec.adaptive_speed_threshold = 2 * (CW_DOT_CALIBRATION \div CW_SPEED_MIN)

(***************************************************************************)
(* Further properties of SpecTrack.                                        *)
(***************************************************************************)

(* C14: in adaptive mode, after cw_end_receive_tone() has returned with   *)
(* success, dot_len_ideal is CW_DOT_CALIBRATION / speed for the speed the  *)
(* receiver now reports, dash_len_ideal is 3 * dot_len_ideal, dot_len_max  *)
(* is 2 * dot_len_ideal and eoc_len_max is 5 * dot_len_ideal.              *)
C14_TimingsFollowSpeed ==
    (last.op = "end_receive_tone" /\ last.rv /\ rec.is_adaptive_receive_mode) =>
        /\ rec.dot_len_ideal = CW_DOT_CALIBRATION \div rec.speed
        /\ rec.dash_len_ideal = 3 * rec.dot_len_ideal
        /\ rec.dot_len_max = 2 * rec.dot_len_ideal
        /\ rec.eoc_len_max = 5 * rec.dot_len_ideal

(* What the code does: without a clamp, the timings are those of the      *)
(* speed that the receiver reported before the mark.                       *)
C14_TimingsLag ==
    [][ ( /\ last'.op = "end_receive_tone"
          /\ last'.rv
          /\ rec.is_adaptive_receive_mode
          /\ rec'.speed \notin {CW_SPEED_MIN, CW_SPEED_MAX} ) =>
            /\ rec'.dot_len_ideal = CW_DOT_CALIBRATION \div rec.speed
            /\ rec'.dash_len_ideal = 3 * rec'.dot_len_ideal
            /\ rec'.dot_len_max = 2 * rec'.dot_len_ideal
            /\ rec'.eoc_len_max = 5 * rec'.dot_len_ideal
      ]_vars

(***************************************************************************)
(* SpecStats: the receiver at its initial parameters, in fixed or in       *)
(* adaptive mode, hears a key that sends dots and dashes of the initial    *)
(* speed in turn, one dot length apart, until the statistics ring has      *)
(* wrapped.                                                                *)
(***************************************************************************)
MaxStatsPairs == 130

InitStats ==
    \E adaptive \in BOOLEAN :
        Started(cw_rec_set_adaptive_internal(cw_receiver, adaptive), 2 * MaxStatsPairs)

StatsKeyDown == ~KeyIsDown /\ StartReceiveTone(Later(now, UnitInitial))

StatsKeyUp ==
    /\ KeyIsDown
    /\ EndReceiveTone(Later(now, IF Len(fed) % 2 = 0 THEN UnitInitial ELSE 3 * UnitInitial))

NextStats == StatsKeyDown \/ StatsKeyUp

SpecStats == InitStats /\ [][NextStats]_vars

(* The ring holds CW_REC_STATISTICS_CAPACITY records. *)
StatisticsFull(r) ==
    \A i \in 0 .. CW_REC_STATISTICS_CAPACITY - 1 : r.statistics[i].type # CW_REC_STAT_NONE

(* C15: a successful cw_end_receive_tone() stores one record at           *)
(* statistics_ind and changes no other: its type is that of the mark put   *)
(* into the buffer, its delta the length of the mark minus the ideal       *)
(* length of that type; statistics_ind moves on by one modulo              *)
(* CW_REC_STATISTICS_CAPACITY, so that it stays in the ring and a full     *)
(* ring loses the record at statistics_ind, its oldest.                    *)
C15_MarkStatistics ==
    [][ (last'.op = "end_receive_tone" /\ last'.rv) =>
            LET mark == rec'.representation[rec.representation_ind]
            IN  /\ rec.statistics_ind \in 0 .. CW_REC_STATISTICS_CAPACITY - 1
                /\ rec'.statistics_ind \in 0 .. CW_REC_STATISTICS_CAPACITY - 1
                /\ rec'.statistics_ind =
                       (rec.statistics_ind + 1) % CW_REC_STATISTICS_CAPACITY
                /\ rec'.statistics =
                       [rec.statistics EXCEPT ![rec.statistics_ind] =
                           IF mark = CW_DOT_REPRESENTATION
                           THEN [type |-> CW_REC_STAT_DOT,
                                 delta |-> last'.arg - rec'.dot_len_ideal]
                           ELSE [type |-> CW_REC_STAT_DASH,
                                 delta |-> last'.arg - rec'.dash_len_ideal]]
      ]_vars

(* In adaptive mode the record of a dash has overwritten the oldest       *)
(* record of a full ring, and the index has wrapped.                       *)
C15_Witness ==
    /\ last.op = "end_receive_tone"
    /\ last.rv
    /\ rec.is_adaptive_receive_mode
    /\ StatisticsFull(rec)
    /\ rec.statistics_ind = 3
    /\ rec.statistics[2].type = CW_REC_STAT_DASH

(***************************************************************************)
(* SpecParameters: the client sets the speed and the tolerance and turns   *)
(* adaptive mode on and off, from the receiver as it is constructed.       *)
(***************************************************************************)
MaxParameterOps == 4

Speeds ==
    {CW_SPEED_MIN - 1, CW_SPEED_MIN, CW_SPEED_INITIAL, CW_SPEED_MAX, CW_SPEED_MAX + 1}

InitParameters == Started(cw_receiver, MaxParameterOps)

NextParameters ==
    \/ \E new_value \in Speeds : SetReceiveSpeed(new_value)
    \/ \E new_value \in Tolerances : SetTolerance(new_value)
    \/ EnableAdaptiveReceive
    \/ DisableAdaptiveReceive

SpecParameters == InitParameters /\ [][NextParameters]_vars

(* The receiver r holds the fixed-mode timings of speed v. *)
FixedTimings(r, v) ==
    LET unit_len == CW_DOT_CALIBRATION \div v
        tolerance == (unit_len * r.tolerance) \div 100
        additional_delay == r.gap * unit_len
    IN  /\ r.parameters_in_sync
        /\ r.adaptive_speed_threshold = 2 * unit_len
        /\ r.dot_len_ideal = unit_len
        /\ r.dash_len_ideal = 3 * unit_len
        /\ r.eom_len_ideal = unit_len
        /\ r.eoc_len_ideal = 3 * unit_len
        /\ r.dot_len_min = unit_len - tolerance
        /\ r.dot_len_max = unit_len + tolerance
        /\ r.dash_len_min = 3 * unit_len - tolerance
        /\ r.dash_len_max = 3 * unit_len + tolerance
        /\ r.eom_len_min = unit_len - tolerance
        /\ r.eom_len_max = unit_len + tolerance
        /\ r.eoc_len_min = 3 * unit_len - tolerance
        /\ r.eoc_len_max = 3 * unit_len + tolerance + additional_delay
                               + (7 * additional_delay) \div 3

(* cw_set_receive_speed() has failed with errno e and changed nothing. *)
SetSpeedRefused(e) == ~last'.rv /\ last'.errno = e /\ rec' = rec

(* C17: cw_set_receive_speed() fails with EPERM in adaptive mode, for any *)
(* argument, and with EINVAL in fixed mode for an argument outside         *)
(* CW_SPEED_MIN..CW_SPEED_MAX, and a failed call changes nothing of the    *)
(* receiver; in fixed mode with an argument in the range it succeeds and   *)
(* the receiver holds the timings of the new speed.                        *)
C17_SetSpeedTimings ==
    [][ last'.op = "set_receive_speed" =>
            IF rec.is_adaptive_receive_mode THEN SetSpeedRefused(EPERM)
            ELSE IF last'.arg \notin CW_SPEED_MIN .. CW_SPEED_MAX
            THEN SetSpeedRefused(EINVAL)
            ELSE /\ last'.rv
                 /\ rec'.speed = last'.arg
                 /\ FixedTimings(rec', last'.arg)
      ]_vars

(* C17, amended: as above, but a successful call derives the timings of   *)
(* the new speed only if the speed changes; a call with the speed the      *)
(* receiver already has changes nothing, so that parameters that were not  *)
(* in sync before the call are not in sync after it.                       *)
C17_SetSpeedOutcomes ==
    [][ last'.op = "set_receive_speed" =>
            IF rec.is_adaptive_receive_mode THEN SetSpeedRefused(EPERM)
            ELSE IF last'.arg \notin CW_SPEED_MIN .. CW_SPEED_MAX
            THEN SetSpeedRefused(EINVAL)
            ELSE /\ last'.rv
                 /\ rec'.speed = last'.arg
                 /\ IF last'.arg = rec.speed
                    THEN rec' = rec
                    ELSE FixedTimings(rec', last'.arg)
      ]_vars

(* The speed has been set to CW_SPEED_MAX after the tolerance was         *)
(* changed.                                                                *)
C17_Witness ==
    /\ last.op = "set_receive_speed"
    /\ last.rv
    /\ last.arg = CW_SPEED_MAX
    /\ rec.speed = CW_SPEED_MAX
    /\ rec.tolerance = CW_TOLERANCE_MAX
    /\ rec.dot_len_ideal = CW_DOT_CALIBRATION \div CW_SPEED_MAX
    /\ ~rec.is_adaptive_receive_mode

(***************************************************************************)
(* SpecReversed: the client hands in well-formed timestamps that are not   *)
(* in order: each is UnitInitial after the one before, or half of that     *)
(* before it, which is before the start of a mark begun at the latest      *)
(* timestamp and after the end of the mark before.                         *)
(***************************************************************************)
MaxReversedOps == 4

(* ts is before other. *)
Before(ts, other) ==
    \/ ts.tv_sec < other.tv_sec
    \/ ts.tv_sec = other.tv_sec /\ ts.tv_usec < other.tv_usec

(* The timestamp usecs before ts, for usecs below a second. *)
Earlier(ts, usecs) ==
    IF ts.tv_usec >= usecs
    THEN [tv_sec |-> ts.tv_sec, tv_usec |-> ts.tv_usec - usecs]
    ELSE [tv_sec |-> ts.tv_sec - 1, tv_usec |-> ts.tv_usec + CW_USECS_PER_SEC - usecs]

ReversedStamps ==
    {Later(now, UnitInitial)}
        \cup (IF now = Timeval(0) THEN {} ELSE {Earlier(now, UnitInitial \div 2)})

InitReversed == Started(cw_receiver, MaxReversedOps)

NextReversed ==
    \/ \E ts \in ReversedStamps : StartReceiveTone(ts)
    \/ \E ts \in ReversedStamps : EndReceiveTone(ts)
    \/ \E ts \in ReversedStamps : ReceiveRepresentation(ts)

SpecReversed == InitReversed /\ [][NextReversed]_vars

(* The call made in this step is an end of mark before the stored start   *)
(* of the mark, or a start of mark or a poll before the stored end of the  *)
(* last mark.                                                              *)
ReversedCall ==
    \/ /\ last'.op = "end_receive_tone"
       /\ rec.state = RS_MARK
       /\ Before(last'.ts, rec.mark_start)
    \/ /\ last'.op = "start_receive_tone"
       /\ rec.state = RS_SPACE
       /\ Before(last'.ts, rec.mark_end)
    \/ /\ last'.op = "receive_representation"
       /\ rec.state \in ReceiverStates \ {RS_IDLE, RS_MARK}
       /\ Before(last'.ts, rec.mark_end)

(* C18: a cw_end_receive_tone() with a timestamp before the stored start  *)
(* of the mark, and a cw_start_receive_tone() or a poll with a timestamp   *)
(* before the stored end of the last mark, fails with EINVAL and leaves    *)
(* the state and the representation buffer as they were.                   *)
C18_ReversedRefused ==
    [][ ReversedCall =>
            /\ ~last'.rv
            /\ last'.errno = EINVAL
            /\ rec'.state = rec.state
            /\ rec'.representation = rec.representation
            /\ rec'.representation_ind = rec.representation_ind
      ]_vars

(* What the code does: no such call fails with EINVAL; the difference of  *)
(* the timestamps is taken for the length of a mark or of a space.         *)
C18_ReversedMeasured ==
    [][ ReversedCall => last'.errno # EINVAL ]_vars

(***************************************************************************)
(* SpecKeying: the Receiver object of xcwcp.  The keying callback          *)
(* Receiver::handle_libcw_keying_event runs whenever the key changes,      *)
(* between any two statements of the polling task Receiver::poll, which    *)
(* calls poll_space() or poll_character().                                 *)
(***************************************************************************)
MaxKeyingOps == 5

KeyingGaps == {UnitInitial, 3 * UnitInitial}

PollingGaps == {UnitInitial, 3 * UnitInitial, 7 * UnitInitial}

InitKeying == Started(cw_receiver, MaxKeyingOps)

(* The call of the library that the callback makes for a changed key,      *)
(* after the buffer was cleared if a space was pending at key down.        *)
KeyingCall(r, x, t, key_state) ==
    IF key_state
    THEN cw_rec_mark_begin_internal(
             IF x.is_pending_inter_word_space THEN cw_clear_receive_buffer(r) ELSE r, t)
    ELSE cw_rec_mark_end_internal(r, t)

(* The callback after its call of the library has returned res. *)
KeyingHandled(x, t, key_state, res) ==
    /\ Returning("handle_libcw_keying_event", t, IF key_state THEN 1 ELSE 0,
                 IF ~key_state /\ ~res.rv /\ res.errno \in {ENOMEM, ENOENT}
                 THEN [res EXCEPT !.rec = cw_clear_receive_buffer(res.rec)]
                 ELSE res)
    /\ xcwcp' = [x EXCEPT
           !.tracked_key_state = key_state,
           !.is_pending_inter_word_space = IF key_state THEN FALSE ELSE @,
           !.libcw_receive_errno =
               IF ~key_state /\ ~res.rv /\ res.errno \in {ENOMEM, ENOENT}
               THEN res.errno ELSE @,
           !.aborted = /\ ~res.rv
                       /\ key_state \/ res.errno \notin {EAGAIN, ENOMEM, ENOENT}]

(* Receiver::handle_libcw_keying_event(t, key_state) *)
HandleLibcwKeyingEvent(t, key_state) ==
    /\ ~xcwcp.aborted
    /\ IF key_state = xcwcp.tracked_key_state
       THEN /\ Returning("handle_libcw_keying_event", t, IF key_state THEN 1 ELSE 0,
                         Success(rec))
            /\ xcwcp' = xcwcp
       ELSE KeyingHandled(xcwcp, t, key_state, KeyingCall(rec, xcwcp, t, key_state))
    /\ UNCHANGED <<pre, fed, heard>>

(* Receiver::poll_report_error(), if an error is registered. *)
PollReportError(x) == [x EXCEPT !.libcw_receive_errno = NoErrno]

(* poll_space() after cw_receive_character() has returned res and         *)
(* is_end_of_word_c, which the call does not assign when it fails.         *)
PollSpaceHandled(x, t, res, is_end_of_word_c) ==
    /\ Returning("poll_space", t, 0,
                 IF is_end_of_word_c
                 THEN [res EXCEPT !.rec = cw_clear_receive_buffer(res.rec)]
                 ELSE res)
    /\ xcwcp' = [x EXCEPT
           !.is_pending_inter_word_space = IF is_end_of_word_c THEN FALSE ELSE @,
           !.pc = IF is_end_of_word_c THEN "character" ELSE "poll"]

(* Receiver::poll() with a space pending: poll_space() *)
ReceiverPollSpace(t) ==
    /\ ~xcwcp.aborted
    /\ xcwcp.pc = "poll"
    /\ xcwcp.is_pending_inter_word_space
    /\ \E is_end_of_word_c \in BOOLEAN :
           /\ cw_rec_poll_character_internal(rec, t).rv =>
                  is_end_of_word_c = cw_rec_poll_character_internal(rec, t).is_end_of_word
           /\ PollSpaceHandled(PollReportError(xcwcp), t,
                               cw_rec_poll_character_internal(rec, t), is_end_of_word_c)
    /\ UNCHANGED <<pre, fed, heard>>

(* poll_character() after cw_receive_character() has returned res, up to  *)
(* the assignment of is_pending_inter_word_space.                          *)
PollCharacterHandled(x, t, res) ==
    /\ Returning("poll_character", t, 0,
                 IF ~res.rv /\ res.errno = ENOENT
                 THEN [res EXCEPT !.rec = cw_clear_receive_buffer(res.rec)]
                 ELSE res)
    /\ xcwcp' = [x EXCEPT
           !.pc = IF res.rv THEN "received" ELSE "poll",
           !.aborted = ~res.rv /\ res.errno \notin {EAGAIN, ERANGE, ENOENT}]

(* Receiver::poll(): poll_character(), first or after poll_space() *)
ReceiverPollCharacter(t) ==
    /\ ~xcwcp.aborted
    /\ \/ xcwcp.pc = "poll" /\ ~xcwcp.is_pending_inter_word_space
       \/ xcwcp.pc = "character"
    /\ PollCharacterHandled(IF xcwcp.pc = "poll" THEN PollReportError(xcwcp) ELSE xcwcp,
                            t, cw_rec_poll_character_internal(rec, t))
    /\ heard' = IF last'.rv
                THEN Append(heard, [c |-> last'.c, is_end_of_word |-> last'.is_end_of_word])
                ELSE heard
    /\ UNCHANGED <<pre, fed>>

(* poll_character(): is_pending_inter_word_space = true *)
ReceiverPollCharacterFlag ==
    /\ ~xcwcp.aborted
    /\ xcwcp.pc = "received"
    /\ xcwcp' = [xcwcp EXCEPT !.is_pending_inter_word_space = TRUE, !.pc = "poll"]
    /\ UNCHANGED <<rec, now, last, pre, fed, heard, text, nops, limit, tq, keyer, sender>>

NextKeying ==
    \/ \E d \in KeyingGaps, key_state \in BOOLEAN :
           HandleLibcwKeyingEvent(Later(now, d), key_state)
    \/ \E d \in PollingGaps : ReceiverPollSpace(Later(now, d))
    \/ \E d \in PollingGaps : ReceiverPollCharacter(Later(now, d))
    \/ ReceiverPollCharacterFlag

SpecKeying == InitKeying /\ [][NextKeying]_vars

(* C19: the keying callback sets flags of the Receiver object only: it    *)
(* leaves the receiver of the library as it is.                            *)
C19_CallbackSetsFlagsOnly ==
    [][ last'.op = "handle_libcw_keying_event" => rec' = rec ]_vars

(* What the code does: a callback for a changed key that does not abort   *)
(* has called cw_start_receive_tone() or cw_end_receive_tone(), and the    *)
(* receiver is another.                                                    *)
C19_CallbackCallsReceiver ==
    [][ ( /\ last'.op = "handle_libcw_keying_event"
          /\ xcwcp'.tracked_key_state # xcwcp.tracked_key_state
          /\ ~xcwcp'.aborted ) => rec' # rec
      ]_vars

(* A callback between cw_receive_character() and the assignment of the    *)
(* flag in poll_character() does not clear the buffer: its                 *)
(* cw_start_receive_tone() fails and the callback aborts.                  *)
C19_CallbackRaces ==
    /\ xcwcp.aborted
    /\ xcwcp.pc = "received"
    /\ last.op = "handle_libcw_keying_event"
    /\ last.errno = ERANGE

(***************************************************************************)
(* SpecTones: the tone queue.  The client enqueues forever tones, dots and *)
(* dashes, and the generator dequeues.                                     *)
(***************************************************************************)
MaxToneOps == 6

QUEUE_CAPACITY == 3000

QueueFull == "QueueFull"

(* A tone of the given duration, and the forever tone: the tone whose     *)
(* duration is minus the quantum.                                          *)
Tone(usecs) == [usecs |-> usecs]

ForeverTone == Tone(0 - CW_AUDIO_QUANTUM_USECS)

EnqueuedTones == {ForeverTone, Tone(UnitInitial), Tone(3 * UnitInitial)}

(* A dequeue function that takes every tone for a forever tone. *)
IsForever_Any(tone) == tone.usecs = tone.usecs

(* The dequeue function recognizes the forever tone by its marker. *)
IsForever(tone) == tone.usecs = CW_AUDIO_FOREVER_USECS

(* An enqueue that stores a tone in a full queue. *)
enqueue_Overrun(queue, tone) ==
    [queue |-> Append(queue, tone), rv |-> TRUE, errno |-> NoErrno]

(* enqueue(t): the queue after the call, and whether it succeeded. *)
enqueue(queue, tone) ==
    IF Len(queue) >= QUEUE_CAPACITY
    THEN [queue |-> queue, rv |-> FALSE, errno |-> QueueFull]
    ELSE [queue |-> Append(queue, tone), rv |-> TRUE, errno |-> NoErrno]

(* A dequeue that keeps a forever tone at the head whatever is behind it. *)
dequeue_KeepForever(queue) ==
    IF queue = << >>
    THEN [queue |-> queue, rv |-> FALSE, tone |-> Tone(0), removed |-> << >>]
    ELSE IF IsForever(Head(queue))
    THEN [queue |-> queue, rv |-> TRUE, tone |-> Head(queue), removed |-> << >>]
    ELSE [queue |-> Tail(queue), rv |-> TRUE, tone |-> Head(queue),
          removed |-> <<Head(queue)>>]

(* dequeue(): the queue after the call, whether a tone is returned, and   *)
(* the tone.  A forever tone that is the only element is returned and      *)
(* kept; one with a non-forever tone behind it is consumed, and the call   *)
(* proceeds to that tone.                                                  *)
dequeue(queue) ==
    IF queue = << >>
    THEN [queue |-> queue, rv |-> FALSE, tone |-> Tone(0), removed |-> << >>]
    ELSE IF IsForever(Head(queue)) /\ Len(queue) = 1
    THEN [queue |-> queue, rv |-> TRUE, tone |-> Head(queue), removed |-> << >>]
    ELSE IF IsForever(Head(queue)) /\ ~IsForever(queue[2])
    THEN [queue |-> SubSeq(queue, 3, Len(queue)), rv |-> TRUE, tone |-> queue[2],
          removed |-> SubSeq(queue, 1, 2)]
    ELSE [queue |-> Tail(queue), rv |-> TRUE, tone |-> Head(queue),
          removed |-> <<Head(queue)>>]

(* The length goes from at most the low-water mark to above it. *)
CrossesUp(t, queue) == Len(t.queue) <= t.low_water_mark /\ Len(queue) > t.low_water_mark

(* The length goes from above the low-water mark to at most the mark. *)
CrossesDown(t, queue) == Len(t.queue) > t.low_water_mark /\ Len(queue) <= t.low_water_mark

(* A writer that calls the callback after every dequeue at or below the   *)
(* mark.                                                                   *)
LowWaterFires_Unarmed(t, queue) == Len(queue) <= t.low_water_mark

(* The writer calls the armed callback after a dequeue that leaves the    *)
(* length at or below the mark.                                            *)
LowWaterFires(t, queue) == t.armed /\ Len(queue) <= t.low_water_mark

(* A call of the tone queue has returned: the receiver is not involved. *)
ToneCalled(op, arg, rv, errno) ==
    /\ nops < limit
    /\ last' = [last EXCEPT !.op = op, !.arg = arg, !.rv = rv, !.errno = errno]
    /\ nops' = nops + 1
    /\ UNCHANGED <<rec, now, pre, fed, heard, text, limit, xcwcp, keyer, sender>>

Enqueue(tone) ==
    /\ ToneCalled("enqueue", tone.usecs, enqueue(tq.queue, tone).rv,
                  enqueue(tq.queue, tone).errno)
    /\ tq' = [tq EXCEPT !.queue = enqueue(tq.queue, tone).queue,
                        !.tail = IF enqueue(tq.queue, tone).rv
                                 THEN (@ + 1) % QUEUE_CAPACITY ELSE @,
                        !.armed = @ \/ CrossesUp(tq, enqueue(tq.queue, tone).queue),
                        !.enqueued = IF enqueue(tq.queue, tone).rv
                                     THEN Append(@, tone) ELSE @]

(* The tone queue after a dequeue of the writer. *)
Dequeued(t) ==
    [t EXCEPT !.queue = dequeue(t.queue).queue,
              !.head = (@ + Len(dequeue(t.queue).removed)) % QUEUE_CAPACITY,
              !.armed = @ /\ ~LowWaterFires(t, dequeue(t.queue).queue),
              !.invocations = IF LowWaterFires(t, dequeue(t.queue).queue)
                              THEN @ + 1 ELSE @,
              !.crossings = IF CrossesDown(t, dequeue(t.queue).queue)
                            THEN @ + 1 ELSE @,
              !.removed = @ \o dequeue(t.queue).removed,
              !.dequeued = IF dequeue(t.queue).rv
                           THEN Append(@, dequeue(t.queue).tone)
                           ELSE @]

Dequeue ==
    /\ ToneCalled("dequeue", dequeue(tq.queue).tone.usecs, dequeue(tq.queue).rv, NoErrno)
    /\ tq' = Dequeued(tq)

(* A flush that wakes nobody. *)
FlushSignals_Never(t) == FALSE

(* flush() signals the client blocked in wait_for_level(). *)
FlushSignals(t) == t.blocked

(* flush(): the client empties the queue. *)
Flush ==
    /\ ToneCalled("flush", 0, TRUE, NoErrno)
    /\ tq' = [tq EXCEPT !.queue = << >>,
                        !.head = tq.tail,
                        !.signalled = @ \/ FlushSignals(tq),
                        !.crossings = IF CrossesDown(tq, << >>) THEN @ + 1 ELSE @]

InitTones == Started(cw_receiver, MaxToneOps)

NextTones == (\E tone \in EnqueuedTones : Enqueue(tone)) \/ Dequeue

SpecTones == InitTones /\ [][NextTones]_vars

(* C20: a dequeue from a queue that holds a forever tone and nothing else *)
(* returns that tone and leaves the queue as it is, of length 1, however   *)
(* many dequeues came before; a dequeue from a queue with a forever tone   *)
(* at its head and a non-forever tone behind it returns the tone behind    *)
(* and removes both, the forever tone included.                            *)
C20_ForeverTone ==
    [][ last'.op = "dequeue" =>
            /\ tq.queue = <<ForeverTone>> =>
                   /\ last'.rv
                   /\ last'.arg = ForeverTone.usecs
                   /\ tq'.queue = <<ForeverTone>>
                   /\ tq'.dequeued = Append(tq.dequeued, ForeverTone)
            /\ ( /\ Len(tq.queue) >= 2
                 /\ tq.queue[1] = ForeverTone
                 /\ tq.queue[2] # ForeverTone ) =>
                   /\ last'.rv
                   /\ last'.arg = tq.queue[2].usecs
                   /\ tq'.queue = SubSeq(tq.queue, 3, Len(tq.queue))
                   /\ tq'.dequeued = Append(tq.dequeued, tq.queue[2])
      ]_vars

(* Three dequeues have returned the forever tone, a dot was enqueued, and *)
(* the next dequeue has returned the dot and left the queue empty.         *)
C20_Witness ==
    /\ last.op = "dequeue"
    /\ last.arg = UnitInitial
    /\ tq.queue = << >>
    /\ tq.dequeued = <<ForeverTone, ForeverTone, ForeverTone, Tone(UnitInitial)>>

(* C21: however the enqueues of the client and the dequeues of the writer *)
(* interleave, the tones removed from the queue followed by the tones in   *)
(* the queue are the tones enqueued, in their order: none is lost,         *)
(* duplicated or reordered.  A dequeue returns the last tone it removes;   *)
(* it returns a tone without removing one only if the queue holds a        *)
(* forever tone and nothing else.                                          *)
C21_Fifo ==
    [][ /\ tq'.removed \o tq'.queue = tq'.enqueued
        /\ last'.op = "dequeue" =>
               IF tq'.removed # tq.removed
               THEN /\ last'.rv
                    /\ last'.arg = tq'.removed[Len(tq'.removed)].usecs
                    /\ tq'.dequeued = Append(tq.dequeued, tq'.removed[Len(tq'.removed)])
               ELSE IF tq.queue = <<ForeverTone>>
               THEN last'.rv /\ tq'.dequeued = Append(tq.dequeued, ForeverTone)
               ELSE ~last'.rv /\ tq.queue = << >> /\ tq'.dequeued = tq.dequeued
      ]_vars

(* A dot and a forever tone were enqueued; dequeues have returned the dot *)
(* and the forever tone twice, and removed the dot only.                   *)
C21_Witness ==
    /\ tq.enqueued = <<Tone(UnitInitial), ForeverTone>>
    /\ tq.dequeued = <<Tone(UnitInitial), ForeverTone, ForeverTone>>
    /\ tq.removed = <<Tone(UnitInitial)>>
    /\ tq.queue = <<ForeverTone>>

(* C25: no forever tone is at a position of the queue other than the     *)
(* head.                                                                   *)
C25_ForeverAtHeadOnly ==
    \A i \in 2 .. Len(tq.queue) : ~IsForever(tq.queue[i])

(* C25, amended: a forever tone is at the position at which it was        *)
(* enqueued, behind the tones enqueued before it and ahead of those        *)
(* enqueued after it: the queue is the end of the sequence of the enqueued *)
(* tones, so a forever tone is at the head of a queue of several tones     *)
(* only if the tones before it have been dequeued.  A dequeue returns a    *)
(* tone and keeps it only if the tone is a forever tone and the only       *)
(* element; a forever tone that has tones ahead of it is not returned.     *)
C25_ForeverWhereEnqueued ==
    [][ /\ Len(tq'.queue) <= Len(tq'.enqueued)
        /\ tq'.queue = SubSeq(tq'.enqueued, Len(tq'.enqueued) - Len(tq'.queue) + 1,
                              Len(tq'.enqueued))
        /\ (last'.op = "enqueue" /\ last'.rv) =>
               /\ tq'.queue = Append(tq.queue, Tone(last'.arg))
               /\ tq'.queue[Len(tq'.queue)].usecs = last'.arg
        /\ (last'.op = "dequeue" /\ last'.rv /\ tq'.queue = tq.queue) =>
               tq.queue = <<ForeverTone>>
        /\ (last'.op = "dequeue" /\ Len(tq.queue) > 1 /\ ~IsForever(Head(tq.queue))) =>
               /\ last'.arg = Head(tq.queue).usecs
               /\ tq'.queue = Tail(tq.queue)
      ]_vars

(* A forever tone is in the middle of the queue, behind a dot and ahead   *)
(* of a dash, after a dequeue has returned the dot enqueued first.         *)
C25_Witness ==
    /\ last.op = "dequeue"
    /\ tq.queue = <<Tone(UnitInitial), ForeverTone, Tone(3 * UnitInitial)>>
    /\ tq.dequeued = <<Tone(UnitInitial)>>

(***************************************************************************)
(* SpecFull: the client enqueues dots until the tone queue is full; then   *)
(* the client enqueues and the writer dequeues in any order.               *)
(***************************************************************************)
MaxFullOps == 4

InitFull == Started(cw_receiver, QUEUE_CAPACITY + MaxFullOps)

(* The queue has been full. *)
Filled == Len(tq.enqueued) >= QUEUE_CAPACITY

FullFill == ~Filled /\ Enqueue(Tone(UnitInitial))

FullEnqueue == Filled /\ \E tone \in EnqueuedTones : Enqueue(tone)

FullDequeue == Filled /\ Dequeue

NextFull == FullFill \/ FullEnqueue \/ FullDequeue

SpecFull == InitFull /\ [][NextFull]_vars

(* C22: an enqueue returns at once: with fewer than QUEUE_CAPACITY tones  *)
(* in the queue it succeeds, with QUEUE_CAPACITY tones it fails with       *)
(* QueueFull and leaves the queue, its head, its tail and its length as    *)
(* they were; the length is always in 0..QUEUE_CAPACITY, head and tail are *)
(* in 0..QUEUE_CAPACITY - 1, and tail is head plus the length modulo       *)
(* QUEUE_CAPACITY.                                                         *)
C22_BackPressure ==
    [][ /\ Len(tq'.queue) \in 0 .. QUEUE_CAPACITY
        /\ tq'.head \in 0 .. QUEUE_CAPACITY - 1
        /\ tq'.tail \in 0 .. QUEUE_CAPACITY - 1
        /\ tq'.tail = (tq'.head + Len(tq'.queue)) % QUEUE_CAPACITY
        /\ last'.op = "enqueue" =>
               IF Len(tq.queue) = QUEUE_CAPACITY
               THEN ~last'.rv /\ last'.errno = QueueFull /\ tq' = tq
               ELSE last'.rv /\ Len(tq'.queue) = Len(tq.queue) + 1
      ]_vars

(* An enqueue has failed on a full queue whose indices have wrapped: a    *)
(* dequeue and an enqueue came after the queue was full for the first      *)
(* time.                                                                   *)
C22_Witness ==
    /\ last.op = "enqueue"
    /\ ~last.rv
    /\ last.errno = QueueFull
    /\ Len(tq.queue) = QUEUE_CAPACITY
    /\ tq.head = 1
    /\ tq.tail = 1

(***************************************************************************)
(* SpecLowWater: the low-water callback is registered with a mark on the   *)
(* empty queue; the client enqueues and flushes and the writer dequeues,   *)
(* in any order.                                                           *)
(***************************************************************************)
MaxLowWaterMark == 1

MaxLowWaterOps == 7

InitLowWater == Started(cw_receiver, MaxLowWaterOps)

(* register_low_water_callback(mark, cb), called before the queue is used. *)
RegisterLowWaterCallback ==
    /\ last.op = "none"
    /\ \E mark \in 0 .. MaxLowWaterMark :
           /\ ToneCalled("register_low_water_callback", mark, TRUE, NoErrno)
           /\ tq' = [tq EXCEPT !.low_water_mark = mark]

NextLowWater ==
    \/ RegisterLowWaterCallback
    \/ \E tone \in EnqueuedTones : Enqueue(tone)
    \/ Dequeue
    \/ Flush

SpecLowWater == InitLowWater /\ [][NextLowWater]_vars

MaxWaitOps == 4

MaxWaitLevel == 1

InitWait == Started(cw_receiver, MaxWaitOps)

(* wait_for_level(n): the client blocks. *)
WaitForLevel ==
    /\ ~tq.blocked
    /\ \E n \in 0 .. MaxWaitLevel :
           /\ ToneCalled("wait_for_level", n, FALSE, NoErrno)
           /\ tq' = [tq EXCEPT !.blocked = TRUE, !.level = n, !.signalled = FALSE]

(* The blocked client may return. *)
Releasable(t) == t.blocked /\ (Len(t.queue) <= t.level \/ t.signalled \/ t.shutdown)

(* wait_for_level() returns. *)
Released ==
    /\ Releasable(tq)
    /\ last' = [last EXCEPT !.op = "released", !.arg = tq.level, !.rv = TRUE,
                            !.errno = NoErrno]
    /\ tq' = [tq EXCEPT !.blocked = FALSE, !.signalled = FALSE]
    /\ UNCHANGED <<rec, now, pre, fed, heard, text, nops, limit, xcwcp, keyer, sender>>

(* stop(): sets the shutdown flag and wakes any queue wait. *)
Stop ==
    /\ ~tq.shutdown
    /\ ToneCalled("stop", 0, TRUE, NoErrno)
    /\ tq' = [tq EXCEPT !.shutdown = TRUE]

(* The writer takes a tone out of the queue.  A dequeue that returns the  *)
(* lone forever tone, or nothing, leaves the queue as it is.               *)
WriterDequeue ==
    /\ ~tq.shutdown
    /\ dequeue(tq.queue).removed # << >>
    /\ last' = [last EXCEPT !.op = "dequeue", !.arg = dequeue(tq.queue).tone.usecs,
                            !.rv = dequeue(tq.queue).rv, !.errno = NoErrno]
    /\ tq' = Dequeued(tq)
    /\ UNCHANGED <<rec, now, pre, fed, heard, text, nops, limit, xcwcp, keyer, sender>>

NextWait ==
    \/ \E tone \in EnqueuedTones : Enqueue(tone)
    \/ Flush
    \/ Stop
    \/ WaitForLevel
    \/ Released
    \/ WriterDequeue

SpecWait ==
    /\ InitWait
    /\ [][NextWait]_vars
    /\ WF_vars(Released)
    /\ WF_vars(WriterDequeue)

MaxKeyerOps == 4

MaxElements == 4

InitKeyer == Started(cw_receiver, MaxKeyerOps)

(* The element of the other paddle. *)
Opposite(element) == IF element = "Dot" THEN "Dash" ELSE "Dot"

(* A keyer without memory. *)
SetsLatch_Never(k, element, state) == FALSE

(* A press of a paddle while the element of the other paddle is played    *)
(* sets the latch of the paddle.                                           *)
SetsLatch(k, element, state) == state /\ k.state = Opposite(element)

(* A keyer that repeats the element in progress when its paddle is down. *)
NextElement_SamePaddleFirst(k) ==
    IF k.state = "Dot"
    THEN IF k.dot_paddle THEN "Dot"
         ELSE IF k.dash_latch \/ k.dash_paddle THEN "Dash"
         ELSE "Idle"
    ELSE IF k.dash_paddle THEN "Dash"
         ELSE IF k.dot_latch \/ k.dot_paddle THEN "Dot"
         ELSE "Idle"

(* A keyer that goes on with the element in progress when no paddle is    *)
(* down.                                                                   *)
NextElement_NeverIdle(k) ==
    IF k.state = "Dot"
    THEN IF k.dash_latch \/ k.dash_paddle THEN "Dash" ELSE "Dot"
    ELSE IF k.dot_latch \/ k.dot_paddle THEN "Dot" ELSE "Dash"

(* The state the keyer goes to at the end of the element in progress. *)
NextElement(k) ==
    IF k.state = "Dot"
    THEN IF k.dash_latch \/ k.dash_paddle THEN "Dash"
         ELSE IF k.dot_paddle THEN "Dot"
         ELSE "Idle"
    ELSE IF k.dot_latch \/ k.dot_paddle THEN "Dot"
         ELSE IF k.dash_paddle THEN "Dash"
         ELSE "Idle"

(* The keyer goes to the state element and, unless that is Idle, enqueues *)
(* the element and the inter-mark space; the latch of the element is       *)
(* consumed and cleared.                                                   *)
keyer_enqueue(k, element) ==
    [k EXCEPT !.state = element,
              !.elements = IF element = "Idle" THEN @ ELSE Append(@, element),
              !.dot_latch = @ /\ element # "Dot",
              !.dash_latch = @ /\ element # "Dash",
              !.dot_pressed = FALSE,
              !.dash_pressed = FALSE]

(* dot_paddle(state) *)
keyer_dot_paddle(k, state) ==
    [k EXCEPT !.dot_paddle = state,
              !.dot_latch = @ \/ SetsLatch(k, "Dot", state),
              !.dot_pressed = @ \/ (state /\ k.state # "Idle"),
              !.up_boundaries = IF state THEN 0 ELSE @]

(* dash_paddle(state) *)
keyer_dash_paddle(k, state) ==
    [k EXCEPT !.dash_paddle = state,
              !.dash_latch = @ \/ SetsLatch(k, "Dash", state),
              !.dash_pressed = @ \/ (state /\ k.state # "Idle"),
              !.up_boundaries = IF state THEN 0 ELSE @]

(* A paddle event has left the keyer as k: an idle keyer starts the       *)
(* element of the paddle that was pressed.                                 *)
keyer_update(k, element, state) ==
    IF state /\ k.state = "Idle" THEN keyer_enqueue(k, element) ELSE k

(* Both paddles are up. *)
PaddlesUp(k) == ~k.dot_paddle /\ ~k.dash_paddle

(* tick(): the element in progress has ended. *)
keyer_element_end(k) ==
    [keyer_enqueue(k, NextElement(k)) EXCEPT
         !.up_boundaries = IF PaddlesUp(k) THEN @ + 1 ELSE @]

(* A notification of the keyer has returned. *)
KeyerNotified(op, arg) ==
    /\ last' = [last EXCEPT !.op = op, !.arg = arg, !.rv = TRUE, !.errno = NoErrno]
    /\ UNCHANGED <<rec, now, pre, fed, heard, text, limit, xcwcp, tq, sender>>

(* cw_notify_keyer_dot_paddle_event(state) *)
DotPaddleEvent ==
    /\ nops < limit
    /\ nops' = nops + 1
    /\ \E state \in BOOLEAN :
           /\ KeyerNotified("dot_paddle", IF state THEN 1 ELSE 0)
           /\ keyer' = keyer_update(keyer_dot_paddle(keyer, state), "Dot", state)

(* cw_notify_keyer_dash_paddle_event(state) *)
DashPaddleEvent ==
    /\ nops < limit
    /\ nops' = nops + 1
    /\ \E state \in BOOLEAN :
           /\ KeyerNotified("dash_paddle", IF state THEN 1 ELSE 0)
           /\ keyer' = keyer_update(keyer_dash_paddle(keyer, state), "Dash", state)

(* The element in progress ends. *)
ElementEnd ==
    /\ keyer.state # "Idle"
    /\ Len(keyer.elements) < MaxElements \/ PaddlesUp(keyer)
    /\ nops' = nops
    /\ KeyerNotified("element_end", 0)
    /\ keyer' = keyer_element_end(keyer)

NextKeyer == DotPaddleEvent \/ DashPaddleEvent \/ ElementEnd

SpecKeyer == InitKeyer /\ [][NextKeyer]_vars /\ WF_vars(ElementEnd)

(* The element enqueued by the step, or none. *)
Enqueued(k, k2) ==
    IF Len(k2.elements) > Len(k.elements) THEN k2.elements[Len(k2.elements)] ELSE "none"

(* C26: at the end of an element with both paddles down the keyer         *)
(* enqueues the other element; with one paddle down, and the other neither *)
(* down nor pressed while the element was played, it enqueues the element  *)
(* of the paddle that is down, which repeats from then on; no step         *)
(* enqueues more than one element, and a paddle event enqueues one only    *)
(* when it starts an idle keyer.                                           *)
C26_IambicAlternation ==
    [][ /\ Len(keyer'.elements) \in {Len(keyer.elements), Len(keyer.elements) + 1}
        /\ SubSeq(keyer'.elements, 1, Len(keyer.elements)) = keyer.elements
        /\ keyer'.state = IF keyer'.elements # keyer.elements
                          THEN Enqueued(keyer, keyer')
                          ELSE IF last'.op = "element_end" THEN "Idle" ELSE keyer.state
        /\ (last'.op # "element_end" /\ keyer'.elements # keyer.elements) =>
               keyer.state = "Idle"
        /\ (last'.op = "element_end" /\ keyer.dot_paddle /\ keyer.dash_paddle) =>
               Enqueued(keyer, keyer') = Opposite(keyer.state)
        /\ (last'.op = "element_end" /\ keyer.dot_paddle /\ ~keyer.dash_paddle
                /\ ~keyer.dash_pressed) =>
               Enqueued(keyer, keyer') = "Dot"
        /\ (last'.op = "element_end" /\ keyer.dash_paddle /\ ~keyer.dot_paddle
                /\ ~keyer.dot_pressed) =>
               Enqueued(keyer, keyer') = "Dash"
      ]_vars

(* Both paddles are held and the keyer has alternated through four        *)
(* elements, the last one enqueued at the end of the third.                *)
C26_Witness ==
    /\ last.op = "element_end"
    /\ keyer.dot_paddle
    /\ keyer.dash_paddle
    /\ keyer.elements = <<"Dash", "Dot", "Dash", "Dot">>

(* C27: a press of the other paddle while an element is played makes the  *)
(* keyer enqueue the other element at the end of that element, whether the *)
(* paddle is still down then or not, and the latch is clear afterwards; an *)
(* element is enqueued at the end of an element only if its paddle is down *)
(* then or was pressed while the other element was played, so that one     *)
(* press makes one element.                                                *)
C27_ModeBMemory ==
    [][ last'.op = "element_end" =>
            /\ (keyer.state = "Dot" /\ keyer.dash_pressed) =>
                   Enqueued(keyer, keyer') = "Dash"
            /\ (keyer.state = "Dash" /\ keyer.dot_pressed) =>
                   Enqueued(keyer, keyer') = "Dot"
            /\ Enqueued(keyer, keyer') = "Dash" =>
                   keyer.dash_paddle \/ (keyer.state = "Dot" /\ keyer.dash_pressed)
            /\ Enqueued(keyer, keyer') = "Dot" =>
                   keyer.dot_paddle \/ (keyer.state = "Dash" /\ keyer.dot_pressed)
            /\ ~keyer'.dot_latch
            /\ ~keyer'.dash_latch
      ]_vars

(* The dash paddle was pressed and released while the dot was played, the *)
(* dot paddle was released as well, and the dot has ended: a dash follows. *)
C27_Witness ==
    /\ last.op = "element_end"
    /\ PaddlesUp(keyer)
    /\ keyer.state = "Dash"
    /\ keyer.up_boundaries = 1
    /\ keyer.elements = <<"Dot", "Dash">>

(* C28: with both paddles up the keyer is idle after two ends of elements *)
(* at the latest, an idle keyer enqueues nothing while the paddles stay    *)
(* up, and a keyer whose paddles stay up from some moment on becomes idle  *)
(* and stays idle.                                                         *)
C28_ReturnsToIdle ==
    /\ [](keyer.up_boundaries <= 2)
    /\ []((PaddlesUp(keyer) /\ keyer.up_boundaries = 2) => keyer.state = "Idle")
    /\ [][ (keyer.state = "Idle" /\ PaddlesUp(keyer')) =>
               (keyer'.state = "Idle" /\ keyer'.elements = keyer.elements) ]_vars
    /\ <>[]PaddlesUp(keyer) => <>[](keyer.state = "Idle")

(* The paddles were released while a dot was played and a dash was        *)
(* latched: the keyer is idle after the end of the dot and the end of the  *)
(* dash.                                                                   *)
C28_Witness ==
    /\ last.op = "element_end"
    /\ PaddlesUp(keyer)
    /\ keyer.state = "Idle"
    /\ keyer.up_boundaries = 2
    /\ keyer.elements = <<"Dot", "Dash">>

(***************************************************************************)
(* SpecHash: test_cw_representation_to_hash_internal builds every          *)
(* representation of 1 to CW_DATA_MAX_REPRESENTATION_LENGTH dots and       *)
(* dashes and takes the hash of each.                                      *)
(***************************************************************************)
CW_DATA_MAX_REPRESENTATION_LENGTH == 7

CW_DATA_MIN_REPRESENTATION_HASH == 2

CW_DATA_MAX_REPRESENTATION_HASH == 255

(* input[rep] for the bit vector: bit bit_pos of the vector, counted from *)
(* the lowest, makes the symbol at bit_pos, a dash for 1 and a dot for 0.  *)
input(len, bit_vector) ==
    [bit_pos \in 1 .. len |->
        IF (bit_vector \div (2 ^ (bit_pos - 1))) % 2 = 1
        THEN CW_DASH_REPRESENTATION
        ELSE CW_DOT_REPRESENTATION]

(* The representations the test builds. *)
TestedRepresentations ==
    { input(len, bit_vector) :
          bit_vector \in 0 .. (2 ^ CW_DATA_MAX_REPRESENTATION_LENGTH) - 1,
          len \in 1 .. CW_DATA_MAX_REPRESENTATION_LENGTH }

(* A hash kept in 7 bits. *)
cw_representation_to_hash_internal_SevenBit(representation) ==
    LET h[i \in 0 .. Len(representation)] ==
            IF i = 0 THEN 1
            ELSE (2 * h[i - 1]
                  + (IF representation[i] = CW_DASH_REPRESENTATION THEN 1 ELSE 0)) % 128
    IN  h[Len(representation)]

(* A hash without the leading 1 bit. *)
cw_representation_to_hash_internal_NoSentinel(representation) ==
    LET h[i \in 0 .. Len(representation)] ==
            IF i = 0 THEN 0
            ELSE 2 * h[i - 1]
                 + (IF representation[i] = CW_DASH_REPRESENTATION THEN 1 ELSE 0)
    IN  h[Len(representation)]

(* The hash of a representation: a leading 1 bit, then a bit for each     *)
(* symbol from left to right, 1 for a dash and 0 for a dot.                *)
cw_representation_to_hash_internal(representation) ==
    LET h[i \in 0 .. Len(representation)] ==
            IF i = 0 THEN 1
            ELSE 2 * h[i - 1]
                 + (IF representation[i] = CW_DASH_REPRESENTATION THEN 1 ELSE 0)
    IN  h[Len(representation)]

InitHash == Started(cw_receiver, 0)

(* const uint8_t hash = cw_representation_to_hash_internal(input[i]) *)
TestHash ==
    \E len \in 1 .. CW_DATA_MAX_REPRESENTATION_LENGTH :
        \E bit_vector \in 0 .. (2 ^ len) - 1 :
            /\ last' = [last EXCEPT
                   !.op = "cw_representation_to_hash_internal",
                   !.representation = input(len, bit_vector),
                   !.arg = cw_representation_to_hash_internal(input(len, bit_vector)) % 256]
            /\ UNCHANGED <<rec, now, pre, fed, heard, text, nops, limit, xcwcp, tq, keyer, sender>>

NextHash == TestHash

SpecHash == InitHash /\ [][NextHash]_vars

(* A hash has been taken. *)
Hashed == last.op = "cw_representation_to_hash_internal"

(* C29: the test builds 254 representations; no other of them has the    *)
(* hash of the one just hashed, and the hash is at least                   *)
(* CW_DATA_MIN_REPRESENTATION_HASH and at most                             *)
(* CW_DATA_MAX_REPRESENTATION_HASH.                                        *)
C29_HashInjective ==
    /\ Cardinality(TestedRepresentations) = 254
    /\ Hashed =>
           /\ last.representation \in TestedRepresentations
           /\ \A other \in TestedRepresentations :
                  cw_representation_to_hash_internal(other) % 256 = last.arg =>
                      other = last.representation
           /\ last.arg >= CW_DATA_MIN_REPRESENTATION_HASH
           /\ last.arg <= CW_DATA_MAX_REPRESENTATION_HASH

(* Seven dashes have the greatest hash. *)
C29_Witness ==
    /\ Hashed
    /\ last.representation = <<"-", "-", "-", "-", "-", "-", "-">>
    /\ last.arg = CW_DATA_MAX_REPRESENTATION_HASH

(* C30: the hash of a representation of 1 to 7 symbols is less than 128. *)
C30_HashSevenBit == Hashed => last.arg < 128

(* C30, amended: the hash of a representation of n symbols is at least    *)
(* 2^n and less than 2^(n+1): it is less than 128 for up to 6 symbols and  *)
(* from 128 to 255 for 7 symbols, an 8-bit value that indexes a table of   *)
(* 256 entries.                                                            *)
C30_HashEightBit ==
    Hashed =>
        /\ last.arg >= 2 ^ Len(last.representation)
        /\ last.arg < 2 ^ (Len(last.representation) + 1)
        /\ last.arg = cw_representation_to_hash_internal(last.representation)
        /\ last.arg < 256
        /\ last.arg < 128 <=> Len(last.representation) < CW_DATA_MAX_REPRESENTATION_LENGTH

(* Seven dots have the hash 128, the least that is no index into a table  *)
(* of 128 entries.                                                         *)
C30_Witness ==
    /\ Hashed
    /\ last.representation = <<".", ".", ".", ".", ".", ".", ".">>
    /\ last.arg = 128

(***************************************************************************)
(* SpecTimings: the client has set a speed, any from CW_SPEED_MIN to       *)
(* CW_SPEED_MAX; it sets the speed, the tolerance and the gap, switches    *)
(* the adaptive mode, resets the parameters, and between these calls reads *)
(* the timings, identifies marks, keys marks and polls.                    *)
(***************************************************************************)
MaxTimingOps == 3

TimingSpeeds == {CW_SPEED_MAX}

TimingTolerances == {CW_TOLERANCE_MIN, CW_TOLERANCE_MAX}

TimingGaps == {CW_GAP_MAX}

TimingMarkLengths == {UnitInitial, 3 * UnitInitial}

InitTimings ==
    \E new_value \in CW_SPEED_MIN .. CW_SPEED_MAX :
        Started(cw_set_receive_speed(cw_receiver, new_value).rec, MaxTimingOps)

NextTimings ==
    \/ \E new_value \in TimingSpeeds : SetReceiveSpeed(new_value)
    \/ \E new_value \in TimingTolerances : SetTolerance(new_value)
    \/ \E new_value \in TimingGaps : SetGap(new_value)
    \/ EnableAdaptiveReceive
    \/ DisableAdaptiveReceive
    \/ ResetReceiveParameters
    \/ GetReceiveParameters
    \/ \E mark_len \in TimingMarkLengths : IdentifyMark(mark_len)
    \/ StartReceiveTone(Later(now, UnitInitial))
    \/ \E mark_len \in TimingMarkLengths : EndReceiveTone(Later(now, mark_len))
    \/ ReceiveRepresentation(Later(now, 3 * UnitInitial))

SpecTimings == InitTimings /\ [][NextTimings]_vars

(* The call that has returned has read the derived timings: the timings   *)
(* were asked for, a mark was identified, a mark that is no noise has      *)
(* ended, a space was recorded in the statistics or a poll has compared    *)
(* the length of the space.                                                *)
ReadTimings ==
    \/ last'.op \in {"get_receive_parameters", "identify_mark"}
    \/ last'.op = "end_receive_tone" /\ rec.state = RS_MARK
           /\ (last'.rv \/ last'.errno \in {ENOENT, ENOMEM})
    \/ last'.op = "start_receive_tone" /\ rec.state = RS_SPACE /\ last'.rv
    \/ last'.op = "receive_representation"
           /\ rec.state \in {RS_SPACE, RS_EOC_GAP, RS_EOC_GAP_ERR}

(* The ranges of dots and dashes of speed v and tolerance t are in order. *)
RangesInOrder(v, t) ==
    LET unit_len == CW_DOT_CALIBRATION \div v
        tolerance == (unit_len * t) \div 100
    IN  /\ unit_len - tolerance <= unit_len + tolerance
        /\ unit_len + tolerance < 3 * unit_len - tolerance
        /\ 3 * unit_len - tolerance <= 3 * unit_len + tolerance

(* C31: a call that reads the derived timings in fixed mode leaves the    *)
(* speed, the tolerance and the gap as they are, within their limits, and  *)
(* the receiver in sync with the timings of that speed, tolerance and gap, *)
(* whichever setters were called before, and identifies a mark by the      *)
(* ranges of these timings; the ranges of the receiver are in order, as    *)
(* are those of its speed with every tolerance from CW_TOLERANCE_MIN to    *)
(* CW_TOLERANCE_MAX.                                                       *)
C31_NoStaleTimings ==
    [][ (ReadTimings /\ ~rec.is_adaptive_receive_mode) =>
            /\ rec'.speed = rec.speed
            /\ rec'.tolerance = rec.tolerance
            /\ rec'.gap = rec.gap
            /\ rec.speed \in CW_SPEED_MIN .. CW_SPEED_MAX
            /\ rec.tolerance \in CW_TOLERANCE_MIN .. CW_TOLERANCE_MAX
            /\ rec.gap \in CW_GAP_MIN .. CW_GAP_MAX
            /\ FixedTimings(rec', rec.speed)
            /\ rec'.dot_len_min <= rec'.dot_len_max
            /\ rec'.dot_len_max < rec'.dash_len_min
            /\ rec'.dash_len_min <= rec'.dash_len_max
            /\ last'.op = "get_receive_parameters" =>
                   \A t \in CW_TOLERANCE_MIN .. CW_TOLERANCE_MAX :
                       RangesInOrder(rec.speed, t)
            /\ last'.op \in {"identify_mark", "end_receive_tone"} =>
                   (last'.errno = ENOENT <=>
                        /\ ~IsDotLen(rec', last'.arg)
                        /\ ~IsDashLen(rec', last'.arg))
      ]_vars

(* The timings are read at CW_SPEED_MAX, CW_TOLERANCE_MAX and CW_GAP_MAX, *)
(* after the parameters were reset and set again.                          *)
C31_Witness ==
    /\ last.op = "get_receive_parameters"
    /\ ~rec.is_adaptive_receive_mode
    /\ rec.speed = CW_SPEED_MAX
    /\ rec.tolerance = CW_TOLERANCE_MAX
    /\ rec.gap = CW_GAP_MAX
    /\ rec.dot_len_max = 38000
    /\ rec.dash_len_min = 42000
    /\ rec.eoc_len_max = 78000 + CW_GAP_MAX * 20000 + 2800000

(* A mark has ended in fixed mode that is no noise and whose length is in *)
(* neither range of the timings of the receiver's speed and tolerance.     *)
UnrecognisedMark ==
    /\ last'.op = "end_receive_tone"
    /\ rec.state = RS_MARK
    /\ last'.errno # EINVAL
    /\ ~rec.is_adaptive_receive_mode
    /\ ~IsNoiseSpike(rec, last'.arg)
    /\ ~IsDotLen(cw_rec_sync_parameters_internal(rec), last'.arg)
    /\ ~IsDashLen(cw_rec_sync_parameters_internal(rec), last'.arg)

(* C32: such a mark fails with ENOENT, leaves the representation buffer   *)
(* and the statistics as they are, and takes the receiver from Mark to     *)
(* RS_EOW_GAP_ERR if it is longer than eoc_len_max and to RS_EOC_GAP_ERR   *)
(* if not, never to Mark or Space.                                         *)
C32_UnrecognisedMark ==
    [][ UnrecognisedMark =>
            /\ ~last'.rv
            /\ last'.errno = ENOENT
            /\ rec'.representation = rec.representation
            /\ rec'.representation_ind = rec.representation_ind
            /\ rec'.statistics = rec.statistics
            /\ rec'.statistics_ind = rec.statistics_ind
            /\ rec'.state = IF last'.arg > rec'.eoc_len_max
                            THEN RS_EOW_GAP_ERR ELSE RS_EOC_GAP_ERR
            /\ rec'.state \notin {RS_MARK, RS_SPACE}
      ]_vars

(* At CW_SPEED_MAX a mark of 100000 us is longer than any dash and than   *)
(* the longest end-of-character gap: it has failed with ENOENT and the     *)
(* receiver is in RS_EOW_GAP_ERR.                                          *)
C32_Witness ==
    /\ last.op = "end_receive_tone"
    /\ last.errno = ENOENT
    /\ last.arg = UnitInitial
    /\ rec.speed = CW_SPEED_MAX
    /\ ~rec.is_adaptive_receive_mode
    /\ rec.state = RS_EOW_GAP_ERR
    /\ rec.representation_ind = 0

(* At CW_SPEED_MIN the same mark is shorter than any dot: the receiver is *)
(* in RS_EOC_GAP_ERR.                                                      *)
C32_WitnessEoc ==
    /\ last.op = "end_receive_tone"
    /\ last.errno = ENOENT
    /\ last.arg = UnitInitial
    /\ rec.speed = CW_SPEED_MIN
    /\ rec.state = RS_EOC_GAP_ERR

(***************************************************************************)
(* The adaptive tracker fed with marks of the ideal lengths of the speed   *)
(* at which it was switched on, and with marks 4 us longer.                *)
(***************************************************************************)
MaxMidpointMarks == 4

MidpointMarkLengths ==
    {UnitInitial, UnitInitial + CW_REC_AVERAGING_ARRAY_LENGTH,
     3 * UnitInitial, 3 * UnitInitial + CW_REC_AVERAGING_ARRAY_LENGTH}

InitMidpoint == Started(cw_receiver, 1 + 2 * MaxMidpointMarks)

MidpointAdaptive == ~rec.is_adaptive_receive_mode /\ EnableAdaptiveReceive

MidpointKeyDown ==
    /\ rec.is_adaptive_receive_mode
    /\ ~KeyIsDown
    /\ StartReceiveTone(Later(now, UnitInitial))

MidpointKeyUp ==
    /\ KeyIsDown
    /\ \E mark_len \in MidpointMarkLengths : EndReceiveTone(Later(now, mark_len))

NextMidpoint == MidpointAdaptive \/ MidpointKeyDown \/ MidpointKeyUp

SpecMidpoint == InitMidpoint /\ [][NextMidpoint]_vars

(* The midpoint of the two averages. *)
Midpoint(avg_dot_len, avg_dash_len) == CDiv(avg_dash_len + avg_dot_len, 2)

(* A mark has been accepted in adaptive mode. *)
MarkAveraged ==
    /\ rec.is_adaptive_receive_mode
    /\ last.op = "end_receive_tone"
    /\ last.rv

(* C33: after every accepted mark in adaptive mode the threshold that the *)
(* implementation computes from the two averages,                          *)
(* avg_dot + (avg_dash - avg_dot) / 2, is their midpoint                   *)
(* (avg_dash + avg_dot) / 2.                                               *)
C33_ThresholdIsMidpoint ==
    MarkAveraged =>
        AdaptiveThreshold(rec.dot_averaging.average, rec.dash_averaging.average)
            = Midpoint(rec.dot_averaging.average, rec.dash_averaging.average)

(* What the code does: the two are equal when the dash average is not     *)
(* below the dot average, and when it is below they differ by at most 1.   *)
C33_MidpointWhenOrdered ==
    MarkAveraged =>
        LET avg_dot_len == rec.dot_averaging.average
            avg_dash_len == rec.dash_averaging.average
        IN  /\ avg_dash_len >= avg_dot_len =>
                   AdaptiveThreshold(avg_dot_len, avg_dash_len)
                       = Midpoint(avg_dot_len, avg_dash_len)
            /\ AdaptiveThreshold(avg_dot_len, avg_dash_len)
                   - Midpoint(avg_dot_len, avg_dash_len) \in {0, 1}

(* They differ only while the dash average is the 0 that                  *)
(* cw_rec_reset_average_internal has left in it: no dash has been averaged *)
(* since adaptive mode was switched on.                                    *)
C33_DashAverageStale ==
    (MarkAveraged /\ rec.dash_averaging.average # 0) =>
        AdaptiveThreshold(rec.dot_averaging.average, rec.dash_averaging.average)
            = Midpoint(rec.dot_averaging.average, rec.dash_averaging.average)

(* Every mark accepted since adaptive mode was switched on had the ideal  *)
(* length of a dot or of a dash of the speed it was switched on at.        *)
IdealMarksFed ==
    /\ MarkAveraged
    /\ \A i \in 1 .. Len(fed) : fed[i] \in {UnitInitial, 3 * UnitInitial}

(* C34: adaptive mode is switched on at the fixed speed                   *)
(* CW_SPEED_INITIAL; after marks of exactly the ideal dot and dash     *)
(* lengths of that speed, in any order, the reported speed is that speed   *)
(* and the adaptive threshold is twice its dot length, as they were.       *)
C34_IdealMarksKeepSpeed ==
    IdealMarksFed =>
        /\ rec.speed = CW_SPEED_INITIAL
        /\ rec.adaptive_speed_threshold = 2 * UnitInitial

(* What the code does with the first mark: the average of the other kind  *)
(* is still 0, so an ideal dot gives the threshold 50000 us and 48 WPM, an *)
(* ideal dash 150000 us and 16 WPM.                                        *)
C34_FirstMarkMovesSpeed ==
    (IdealMarksFed /\ Len(fed) = 1) =>
        /\ fed[1] = UnitInitial =>
               /\ rec.dot_averaging.average = UnitInitial
               /\ rec.dash_averaging.average = 0
               /\ rec.adaptive_speed_threshold = UnitInitial \div 2
               /\ rec.speed = 4 * CW_SPEED_INITIAL
        /\ fed[1] = 3 * UnitInitial =>
               /\ rec.dot_averaging.average = 0
               /\ rec.dash_averaging.average = 3 * UnitInitial
               /\ rec.adaptive_speed_threshold = (3 * UnitInitial) \div 2
               /\ rec.speed = (4 * CW_SPEED_INITIAL) \div 3

(***************************************************************************)
(* Marks, and spaces of every kind before the next mark or the next poll.  *)
(***************************************************************************)
MaxSpaceOps == 5

SpaceGaps ==
    {UnitInitial,                             \* an inter-mark space
     3 * UnitInitial,                         \* an end-of-character gap
     3 * UnitInitial + ToleranceInitial + 1,  \* an end-of-word gap
     100 * UnitInitial}                       \* a very long space

(* The polls come after the same gaps, or shortly after the last call. *)
SpacePollGaps == SpaceGaps \cup {UnitInitial \div 4}

InitSpaces == Started(cw_receiver, MaxSpaceOps)

NextSpaces ==
    \/ \E d \in SpaceGaps : StartReceiveTone(Later(now, d))
    \/ \E mark_len \in {CW_REC_NOISE_THRESHOLD_INITIAL, UnitInitial} :
           EndReceiveTone(Later(now, mark_len))
    \/ \E d \in SpacePollGaps : ReceiveRepresentation(Later(now, d))
    \/ \E d \in {3 * UnitInitial, 100 * UnitInitial} : ReceiveCharacter(Later(now, d))
    \/ ClearReceiveBuffer

SpecSpaces == InitSpaces /\ [][NextSpaces]_vars

(* The step has stored one record of this type at statistics_ind and      *)
(* changed no other record.                                                *)
RecordPushed(type) ==
    /\ rec'.statistics_ind = (rec.statistics_ind + 1) % CW_REC_STATISTICS_CAPACITY
    /\ rec'.statistics[rec.statistics_ind].type = type
    /\ \A i \in 0 .. CW_REC_STATISTICS_CAPACITY - 1 :
           i # rec.statistics_ind => rec'.statistics[i] = rec.statistics[i]

(* The step has left the statistics as they were. *)
NothingPushed ==
    /\ rec'.statistics_ind = rec.statistics_ind
    /\ rec'.statistics = rec.statistics

(* C35: a poll stores one inter-character-space record when it takes the  *)
(* receiver from RS_SPACE to RS_EOC_GAP and no record otherwise (a later   *)
(* poll in RS_EOC_GAP, RS_EOC_GAP to RS_EOW_GAP, RS_SPACE to RS_EOW_GAP);  *)
(* cw_start_receive_tone() stores one inter-mark-space record when it is   *)
(* accepted in RS_SPACE, whatever the length of the space, and no record   *)
(* when it is accepted in RS_IDLE or refused; no other call stores a       *)
(* record of a space.                                                      *)
C35_SpaceRecordedOnce ==
    [][ /\ last'.op \in {"receive_representation", "receive_character"} =>
               IF rec.state = RS_SPACE /\ rec'.state = RS_EOC_GAP
               THEN RecordPushed(CW_REC_STAT_ICHAR_SPACE)
               ELSE NothingPushed
        /\ last'.op = "start_receive_tone" =>
               IF last'.rv /\ rec.state = RS_SPACE
               THEN /\ RecordPushed(CW_REC_STAT_IMARK_SPACE)
                    /\ rec'.statistics[rec.statistics_ind].delta
                           = cw_timestamp_compare_internal(rec.mark_end, last'.ts)
                               - rec'.eom_len_ideal
               ELSE NothingPushed
        /\ last'.op \in {"end_receive_tone", "clear_receive_buffer"} =>
               /\ ~RecordPushed(CW_REC_STAT_ICHAR_SPACE)
               /\ ~RecordPushed(CW_REC_STAT_IMARK_SPACE)
      ]_vars

(* A mark has begun 100 units after the last one and one inter-mark-space *)
(* record of that length is stored; the poll before the first mark and the  *)
(* mark begun in RS_IDLE stored none.                                       *)
C35_Witness ==
    /\ last.op = "start_receive_tone"
    /\ last.rv
    /\ last.from = RS_SPACE
    /\ rec.statistics_ind = 2
    /\ rec.statistics[0].type = CW_REC_STAT_DOT
    /\ rec.statistics[1].type = CW_REC_STAT_IMARK_SPACE
    /\ rec.statistics[1].delta = 99 * UnitInitial

(* Three polls, the first from RS_SPACE to RS_EOC_GAP, the second in      *)
(* RS_EOC_GAP and the third from RS_EOC_GAP to RS_EOW_GAP, have stored one  *)
(* inter-character-space record.                                            *)
C35_WitnessPolls ==
    /\ last.op = "receive_representation"
    /\ last.rv
    /\ last.from = RS_EOC_GAP
    /\ rec.state = RS_EOW_GAP
    /\ nops = 5
    /\ rec.statistics_ind = 2
    /\ rec.statistics[1].type = CW_REC_STAT_ICHAR_SPACE

(* C36: in RS_IDLE the representation buffer is empty, in RS_SPACE,       *)
(* RS_EOC_GAP and RS_EOW_GAP it holds at least one mark; and so the state  *)
(* that a noise spike is rolled back to, RS_IDLE for an empty buffer and   *)
(* RS_SPACE otherwise, is the state in which the mark had begun.           *)
C36_StateBufferConsistent ==
    /\ rec.state = RS_IDLE => rec.representation_ind = 0
    /\ rec.state \in {RS_SPACE, RS_EOC_GAP, RS_EOW_GAP} => rec.representation_ind >= 1
    /\ rec.state = RS_MARK =>
           /\ pre.representation_ind = rec.representation_ind
           /\ pre.state = IF rec.representation_ind = 0 THEN RS_IDLE ELSE RS_SPACE
    /\ (last.op = "end_receive_tone" /\ last.errno = EAGAIN) =>
           /\ rec.state = pre.state
           /\ rec.representation_ind = pre.representation_ind

(* A noise spike that began in RS_SPACE with one mark in the buffer has   *)
(* been rolled back to RS_SPACE.                                           *)
C36_Witness ==
    /\ last.op = "end_receive_tone"
    /\ last.errno = EAGAIN
    /\ pre.state = RS_SPACE
    /\ rec.state = RS_SPACE
    /\ rec.representation_ind = 1

(* A mark is open with an empty buffer. *)
C36_WitnessMark ==
    /\ rec.state = RS_MARK
    /\ rec.representation_ind = 0
    /\ pre.state = RS_IDLE

(***************************************************************************)
(* SpecBuffer: the client adds dots until the buffer lacks 2 marks of      *)
(* being full, and goes on as the client of Spec.                          *)
(***************************************************************************)
MaxBufferOps == 4

BufferAlmostFull == CW_REC_REPRESENTATION_CAPACITY - 3

InitBuffer == Started(cw_receiver, BufferAlmostFull + MaxBufferOps)

BufferFill ==
    /\ nops = rec.representation_ind
    /\ rec.representation_ind < BufferAlmostFull
    /\ ReceiveBufferDot(Later(now, UnitInitial))

BufferClient == nops >= BufferAlmostFull /\ Next

NextBuffer == BufferFill \/ BufferClient

SpecBuffer == InitBuffer /\ [][NextBuffer]_vars

(* C37: representation_ind is from 0 to CW_REC_REPRESENTATION_CAPACITY - 1 *)
(* in every state, so that the mark written at                              *)
(* representation[representation_ind] and the terminator that a poll        *)
(* writes there are inside the CW_REC_REPRESENTATION_CAPACITY + 1 cells of  *)
(* the buffer.                                                              *)
C37_BufferBound ==
    /\ rec.representation_ind >= 0
    /\ rec.representation_ind <= CW_REC_REPRESENTATION_CAPACITY - 1
    /\ rec.representation_ind \in DOMAIN rec.representation
    /\ rec.state \in {RS_IDLE, RS_MARK, RS_SPACE} =>
           rec.representation_ind < CW_REC_REPRESENTATION_CAPACITY - 1

(* The buffer has filled up and a poll has returned its 255 marks, the    *)
(* terminator written at representation[255].                              *)
C37_Witness ==
    /\ last.op = "receive_representation"
    /\ last.rv
    /\ last.is_error
    /\ Len(last.representation) = CW_REC_REPRESENTATION_CAPACITY - 1
    /\ rec.representation_ind = CW_REC_REPRESENTATION_CAPACITY - 1
    /\ rec.representation[rec.representation_ind] = NUL

(* The key has sent the mark that filled the buffer. *)
C37_WitnessKeyed ==
    /\ last.op = "end_receive_tone"
    /\ last.errno = ENOMEM
    /\ rec.representation_ind = CW_REC_REPRESENTATION_CAPACITY - 1

(***************************************************************************)
(* SpecDivide: the adaptive tracker fed with short marks, the noise filter *)
(* enabled or disabled.                                                    *)
(***************************************************************************)
MaxDivideMarks == 4

DivideMarkLengths ==
    {0, 1, CW_REC_NOISE_THRESHOLD_INITIAL + 1, UnitInitial, 3 * UnitInitial}

InitDivide == Started(cw_receiver, 2 + 2 * MaxDivideMarks)

DivideAdaptive == ~rec.is_adaptive_receive_mode /\ EnableAdaptiveReceive

DivideNoiseFilter ==
    /\ last.op \in {"none", "enable_adaptive_receive"}
    /\ SetNoiseSpikeThreshold(0)

DivideKeyDown ==
    /\ rec.is_adaptive_receive_mode
    /\ ~KeyIsDown
    /\ StartReceiveTone(Later(now, UnitInitial))

DivideKeyUp ==
    /\ KeyIsDown
    /\ \E mark_len \in DivideMarkLengths : EndReceiveTone(Later(now, mark_len))

NextDivide == DivideAdaptive \/ DivideNoiseFilter \/ DivideKeyDown \/ DivideKeyUp

SpecDivide == InitDivide /\ [][NextDivide]_vars

(* C38: no synchronisation of the parameters divides by zero: in adaptive *)
(* mode adaptive_speed_threshold / 2 is at least 1 when the speed is       *)
(* computed from it, and the speed is at least 1 when the dot length is    *)
(* computed from it, for marks of every length >= 0 and with the noise     *)
(* filter enabled or disabled.                                             *)
C38_NoDivisionByZero == ~rec.sigfpe

(* What the code does: a synchronisation divides by zero only at the end  *)
(* of a mark of 0 or 1 us, which the disabled noise filter has let pass,    *)
(* when the dot average has come down to 1 us or less and the dash average  *)
(* is still 0; with the filter enabled none does.                           *)
C38_DividesAfterShortMarks ==
    rec.sigfpe =>
        /\ last.op = "end_receive_tone"
        /\ last.arg <= 1
        /\ rec.noise_spike_threshold = 0
        /\ rec.dot_averaging.average <= 1
        /\ rec.dash_averaging.average = 0
        /\ CDiv(rec.adaptive_speed_threshold, 2) = 0

(* C39: under every interleaving of the polls with the keying callback,   *)
(* with valid timestamps, the callback's cw_start_receive_tone() finds the  *)
(* receiver in RS_IDLE or RS_SPACE and its cw_end_receive_tone() finds it   *)
(* in RS_MARK: the callback never aborts.                                   *)
C39_CallbackNeverAborts ==
    [][ ( /\ last'.op = "handle_libcw_keying_event"
          /\ xcwcp'.tracked_key_state # xcwcp.tracked_key_state ) =>
            /\ ~xcwcp'.aborted
            /\ IF xcwcp'.tracked_key_state
               THEN xcwcp.is_pending_inter_word_space \/ rec.state \in {RS_IDLE, RS_SPACE}
               ELSE rec.state = RS_MARK
      ]_vars

(* What the code does: the callback aborts only when it comes between     *)
(* cw_receive_character() and the assignment of                             *)
(* is_pending_inter_word_space in poll_character(): the key is down, the    *)
(* buffer was not cleared and cw_start_receive_tone() has failed with       *)
(* ERANGE in RS_EOC_GAP or RS_EOW_GAP; its cw_end_receive_tone() always     *)
(* finds RS_MARK.                                                           *)
C39_AbortsInPollCharacter ==
    [][ ( /\ last'.op = "handle_libcw_keying_event"
          /\ xcwcp'.tracked_key_state # xcwcp.tracked_key_state ) =>
            /\ ~xcwcp'.tracked_key_state => rec.state = RS_MARK /\ ~xcwcp'.aborted
            /\ xcwcp'.aborted <=>
                   /\ xcwcp.pc = "received"
                   /\ ~xcwcp.is_pending_inter_word_space
                   /\ xcwcp'.tracked_key_state
                   /\ rec.state \in {RS_EOC_GAP, RS_EOW_GAP}
                   /\ last'.errno = ERANGE
      ]_vars

(***************************************************************************)
(* The Sender object of xcwcp (sender.cc).  An operation maps the object   *)
(* to the object after it; sent and kept are the histories.                *)
(***************************************************************************)
(* toupper(c) for the characters that the client types. *)
toupper(c) ==
    CASE c = "e" -> "E"
      [] c = "t" -> "T"
      [] OTHER -> c

(* cw_check_character(c): the space and the characters of the table. *)
cw_check_character(c) == c = " " \/ \E entry \in CW_TABLE : entry[1] = c

(* The characters of word that enqueue_string() pushes. *)
Sendable(word) ==
    SelectSeq([i \in 1 .. Len(word) |-> toupper(word[i])], cw_check_character)

(* An enqueue_string() that leaves the queue idle. *)
enqueue_string_StaysIdle(s, word) ==
    [s EXCEPT !.send_queue_ = @ \o Sendable(word),
              !.kept = @ \o Sendable(word)]

(* Sender::enqueue_string(word) *)
enqueue_string(s, word) ==
    [s EXCEPT !.send_queue_ = @ \o Sendable(word),
              !.is_queue_idle_ = IF Sendable(word) # << >> /\ @ THEN FALSE ELSE @,
              !.kept = @ \o Sendable(word)]

(* Sender::dequeue_character(); cw_send_character(c) succeeds for the     *)
(* characters that cw_check_character() accepts.                           *)
dequeue_character(s) ==
    IF s.is_queue_idle_ THEN s
    ELSE IF s.send_queue_ # << >>
    THEN [s EXCEPT !.send_queue_ = Tail(@),
                   !.sent = Append(@, toupper(Head(s.send_queue_))),
                   !.aborted = ~cw_check_character(toupper(Head(s.send_queue_)))]
    ELSE [s EXCEPT !.is_queue_idle_ = TRUE]

(* Sender::delete_character() *)
delete_character(s) ==
    IF s.send_queue_ # << >>
    THEN [s EXCEPT !.send_queue_ = SubSeq(@, 1, Len(@) - 1),
                   !.kept = SubSeq(@, 1, Len(@) - 1)]
    ELSE s

(* Sender::clear() *)
clear(s) ==
    [s EXCEPT !.send_queue_ = << >>, !.is_queue_idle_ = TRUE, !.kept = s.sent]

(* Sender::poll(current_mode), cw_get_tone_queue_length() returning       *)
(* length and get_random_word_group() returning word_group.                *)
poll(s, current_mode, length, word_group) ==
    IF current_mode \in {"dictionary", "keyboard"} /\ length <= 1
    THEN dequeue_character(
             IF current_mode = "dictionary" /\ s.send_queue_ = << >>
             THEN enqueue_string(s, <<" ">> \o word_group)
             ELSE s)
    ELSE s

(***************************************************************************)
(* SpecSender: the operations of the Sender object in every order.  The    *)
(* constructor is not in sender.cc: the object starts with an empty        *)
(* send_queue_ and with either value of is_queue_idle_.                    *)
(***************************************************************************)
MaxSenderOps == 6

SenderWords == {<<"e">>, <<"T">>, <<"TAB">>, <<"t", "TAB", "E">>}

WordGroups == {<<"E">>, <<"T", "E">>}

Modes == {"dictionary", "keyboard", "receive"}

InitSender ==
    \E idle \in BOOLEAN :
        Constructed(cw_receiver, MaxSenderOps, << >>,
                    [SenderInitial EXCEPT !.is_queue_idle_ = idle])

(* An operation of the Sender object has returned. *)
SenderCalled(op, arg, c, s) ==
    /\ nops < limit
    /\ ~sender.aborted
    /\ sender' = s
    /\ last' = [last EXCEPT !.op = op, !.arg = arg, !.c = c]
    /\ nops' = nops + 1
    /\ UNCHANGED <<rec, now, pre, fed, heard, text, limit, xcwcp, tq, keyer>>

EnqueueString(word) == SenderCalled("enqueue_string", 0, NUL, enqueue_string(sender, word))

DequeueCharacter == SenderCalled("dequeue_character", 0, NUL, dequeue_character(sender))

DeleteCharacter == SenderCalled("delete_character", 0, NUL, delete_character(sender))

Clear == SenderCalled("clear", 0, NUL, clear(sender))

Poll(current_mode, length, word_group) ==
    SenderCalled("poll", length, current_mode,
                 poll(sender, current_mode, length, word_group))

NextSender ==
    \/ \E word \in SenderWords : EnqueueString(word)
    \/ DequeueCharacter
    \/ DeleteCharacter
    \/ Clear
    \/ \E current_mode \in Modes, length \in 0 .. 2, word_group \in WordGroups :
           Poll(current_mode, length, word_group)

SpecSender == InitSender /\ [][NextSender]_vars

(* An idle queue is empty; what was sent, followed by what is queued, is  *)
(* what was enqueued and not removed, in the order it was enqueued; no      *)
(* cw_send_character() has failed.                                          *)
SenderConsistent(s) ==
    /\ s.is_queue_idle_ => s.send_queue_ = << >>
    /\ s.sent \o s.send_queue_ = s.kept
    /\ ~s.aborted

(* C40: after every operation of the Sender object an idle queue is       *)
(* empty, and so every poll() in keyboard or dictionary mode that sees a    *)
(* tone queue of length 1 or less passes the character at the head of       *)
(* send_queue_ to cw_send_character(): every character enqueued and not     *)
(* removed by delete_character() or clear() is sent once, in the order of   *)
(* the enqueues.                                                            *)
C40_SenderQueue ==
    [][ /\ SenderConsistent(sender)
        /\ SenderConsistent(sender')
        /\ ( /\ last'.op = "poll"
             /\ last'.c \in {"dictionary", "keyboard"}
             /\ last'.arg <= 1
             /\ sender.send_queue_ # << >> ) =>
               /\ sender'.sent = Append(sender.sent, Head(sender.send_queue_))
               /\ sender'.send_queue_ = Tail(sender.send_queue_)
               /\ sender'.kept = sender.kept
        /\ last'.op \in {"enqueue_string", "delete_character", "clear"} =>
               sender'.sent = sender.sent
      ]_vars

(* Two words were enqueued, the last character was deleted, and the polls *)
(* have sent the two that were left, in their order, and found the queue    *)
(* empty.                                                                   *)
C40_Witness ==
    /\ last.op = "poll"
    /\ sender.sent = <<"T", "E">>
    /\ sender.kept = <<"T", "E">>
    /\ sender.send_queue_ = << >>
    /\ nops = 5

====
